---------------------------- MODULE Spec2Model ----------------------------
(***************************************************************************)
(* Model of the temperature-to-demand projection pipeline of               *)
(* nationalEnergyAnalysis:                                                 *)
(*   - clip_temperatures, generate_x, predict_demand, analyze_rto and the  *)
(*     tabulation of main      (RTO_climate_change_demand_impact.py)       *)
(*   - predict_demand and the daily-demand rows of the cost script         *)
(*                               (calculate_total_cost_pwlf.py)            *)
(*   - predict_demand of the sub-region script                             *)
(*                               (historical_demand_changes.py)            *)
(*                                                                         *)
(* Numbers.  Temperatures and coefficients are integers (degC, GW); every  *)
(* mean is an exact rational <<n, d>>.  IEEE specials that pandas produces *)
(* (NaN for an empty mean, +-inf for a division by zero) are kept as       *)
(* separate kinds of value.  Temperature files are in degC without NaN     *)
(* rows, so the Kelvin branch of predict_period_demand (line 135) is not   *)
(* taken.                                                                  *)
(***************************************************************************)
EXTENDS Integers, Sequences, FiniteSets, TLC

VARIABLES
    \* ---- the predictors applied to one input (SpecPredict)
    p_fit,        \* one entry of polynomial_fits['fits']: coefficients, data_range
    p_degree,     \* degree_of_fit / POLY_DEGREE
    p_X,          \* temperature values (degC), one per row
    p_dates,      \* the rows' dates, <<year, month, day>>
    p_op,         \* which predictor ran: "none" before the call
    p_result,     \* what it returned: [kind |-> "ok", val |-> <<...>>] or a KeyError
    \* ---- clip_temperatures applied once and again (SpecClip)
    c_temps,      \* the caller's array
    c_min,        \* min_temp
    c_max,        \* max_temp
    c_calls,      \* number of applications so far
    c_outs,       \* the arrays returned, one per application
    c_log,        \* the warnings printed, one record per application
    \* ---- main of the climate-impact script for one region (Spec)
    a_temp_data,        \* the region's temperature file: rows [time, t2m]
    a_fit,              \* the region's entry of polynomial_fits['fits']
    a_degree,           \* degree_of_fit
    a_pc,               \* "loop", "after_loop", "done", "exit1", "crashed"
    a_analysis,         \* what analyze_rto returned or raised
    a_results,          \* results: region -> changes
    a_baseline_results, \* baseline_results: region -> demand_historical
    a_current_results,  \* current_results: region -> demand_recent
    a_annual_changes,   \* annual_changes: region -> changes.mean()
    a_errors,           \* errors
    a_tables,           \* the four exported tables
    \* ---- get_price applied to one demand (SpecPrice)
    q_params,     \* pwlf_params: breakpoints, slopes, intercepts
    q_demand,     \* demand
    q_price,      \* what get_price returned
    \* ---- the cost script for one region, year and degree (SpecCost)
    k_temp,       \* the region's temperature file: rows [time, t2m]
    k_fit,        \* the region's entry of fits['fits']
    k_degree,     \* POLY_DEGREE
    k_curve,      \* price_demand[short_name]
    k_pc,         \* "region", "aggregate", "done", "failed"
    k_daily,      \* rto_temp: the summer rows with demand, price and cost
    k_results,    \* the region's row of results_df
    \* ---- fit_zone of the curve fitter for one region (SpecFit)
    f_samples,    \* the common dates: rows [time, demand, temp]
    f_file,       \* how the demand file's name starts: "pjm", "ercot", "caiso"
    f_degree,     \* max_degree
    f_pc,         \* "start", "done"
    f_result,     \* coef_dict or the ValueError raised, and the fitted data
    \* ---- generate_x applied to one series (SpecFeatures)
    x_X,          \* temperature values
    x_dates,      \* the rows' dates
    x_degree,     \* max_degree / degree_of_fit
    x_op,         \* which generate_x ran: "none" before the call
    x_data,       \* the DataFrame it returned
    \* ---- a batch run of one script over its regions (SpecBatch)
    b_script,           \* "fit", "climate", "historical", "cost"
    b_inputs,           \* region -> the files and artifacts the run finds for it
    b_order,            \* the regions in the order the loop visits them
    b_i,                \* regions visited so far
    b_pc,               \* "loop", "after_loop", "written", "exit1", "exit0",
                        \* "aborted" (in the loop), "crashed" (after it)
    b_results,          \* results (rto_data in the cost script)
    b_baseline_results, \* baseline_results
    b_current_results,  \* current_results
    b_annual_changes,   \* annual_changes
    b_errors,           \* errors
    b_report            \* what the run wrote and printed at its end

predictVars == <<p_fit, p_degree, p_X, p_dates, p_op, p_result>>
clipVars    == <<c_temps, c_min, c_max, c_calls, c_outs, c_log>>
analysisVars == <<a_temp_data, a_fit, a_degree, a_pc, a_analysis, a_results,
                  a_baseline_results, a_current_results, a_annual_changes,
                  a_errors, a_tables>>
priceVars   == <<q_params, q_demand, q_price>>
costVars    == <<k_temp, k_fit, k_degree, k_curve, k_pc, k_daily, k_results>>
fitterVars  == <<f_samples, f_file, f_degree, f_pc, f_result>>
featureVars == <<x_X, x_dates, x_degree, x_op, x_data>>
batchVars   == <<b_script, b_inputs, b_order, b_i, b_pc, b_results,
                 b_baseline_results, b_current_results, b_annual_changes,
                 b_errors, b_report>>
laterVars   == <<priceVars, costVars, fitterVars, featureVars, batchVars>>
vars        == <<predictVars, clipVars, analysisVars, laterVars>>

---------------------------------------------------------------------------
(* Bounds of the model *)

MaxLen == 2        \* longest temperature series handed to a predictor
MaxClipLen == 3    \* longest array handed to clip_temperatures alone

(* Program constants *)

MaxDegree == 4         \* degree_of_fit = 4; the sub-region script is fixed at 4
MAX_TEMP_CEILING == 50 \* max_temp = 50 in analyze_rto

---------------------------------------------------------------------------
(* Arithmetic helpers *)

RECURSIVE Pow(_, _)
Pow(x, n) == IF n = 0 THEN 1 ELSE x * Pow(x, n - 1)

Max(a, b) == IF a >= b THEN a ELSE b

RECURSIVE SeqSum(_)
SeqSum(s) == IF s = <<>> THEN 0 ELSE Head(s) + SeqSum(Tail(s))

---------------------------------------------------------------------------
(* Calendar: pandas' DatetimeIndex.weekday (Monday = 0 .. Sunday = 6) *)

IsLeap(y) == (y % 4 = 0 /\ y % 100 # 0) \/ y % 400 = 0

DaysInMonth(y, m) ==
    IF m = 2 THEN (IF IsLeap(y) THEN 29 ELSE 28)
    ELSE IF m \in {4, 6, 9, 11} THEN 30 ELSE 31

RECURSIVE DaysBeforeMonth(_, _)
DaysBeforeMonth(y, m) ==
    IF m = 1 THEN 0 ELSE DaysBeforeMonth(y, m - 1) + DaysInMonth(y, m - 1)

\* proleptic Gregorian ordinal: 0001-01-01 is day 1, a Monday
Ordinal(date) ==
    LET y == date[1] - 1
    IN  365 * y + (y \div 4) - (y \div 100) + (y \div 400)
        + DaysBeforeMonth(date[1], date[2]) + date[3]

weekday(date) == (Ordinal(date) + 6) % 7

NextDay(date) ==
    IF date[3] < DaysInMonth(date[1], date[2]) THEN <<date[1], date[2], date[3] + 1>>
    ELSE IF date[2] < 12 THEN <<date[1], date[2] + 1, 1>>
    ELSE <<date[1] + 1, 1, 1>>

---------------------------------------------------------------------------
(* Results of a call: a value or the exception that ended it *)

Ok(v)       == [kind |-> "ok", val |-> v]
KeyError(k) == [kind |-> "KeyError", val |-> k]

---------------------------------------------------------------------------
(* Coefficient keys *)

\* f'temperature^{i}'
FStringPower(i) ==
    <<"temperature^1", "temperature^2", "temperature^3",
      "temperature^4", "temperature^5", "temperature^6">>[i]

\* a faulty key rule: the first-order term is looked up under temperature^1
coef_key_NoFirstOrderName(i) == FStringPower(i)

\* coef_key = 'temperature' if i == 1 else f'temperature^{i}'
coef_key(i) == IF i = 1 THEN "temperature" ELSE FStringPower(i)

---------------------------------------------------------------------------
(* RTO_climate_change_demand_impact.py: clip_temperatures *)

below_min(temps, min_temp) == [i \in 1..Len(temps) |-> temps[i] < min_temp]
above_max(temps, max_temp) == [i \in 1..Len(temps) |-> temps[i] > max_temp]

\* np.sum of a boolean mask
CountTrue(mask) == Cardinality({i \in 1..Len(mask) : mask[i]})

\* a faulty clip: the warm side is never clipped
clipped_NoUpper(temps, min_temp, max_temp) ==
    [i \in 1..Len(temps) |-> IF temps[i] < min_temp THEN min_temp ELSE temps[i]]

\* a faulty clip: the cold side is written with += instead of =
clipped_ColdAdded(temps, min_temp, max_temp) ==
    [i \in 1..Len(temps) |->
        IF temps[i] > max_temp THEN max_temp
        ELSE IF temps[i] < min_temp THEN temps[i] + min_temp
        ELSE temps[i]]

\* the returned copy: first the cold mask is set to min_temp, then the warm
\* mask (both taken on the caller's array) is set to max_temp
clipped(temps, min_temp, max_temp) ==
    LET below == below_min(temps, min_temp)
        above == above_max(temps, max_temp)
        afterCold == [i \in 1..Len(temps) |->
                        IF CountTrue(below) > 0 /\ below[i] THEN min_temp ELSE temps[i]]
    IN  [i \in 1..Len(temps) |->
            IF CountTrue(above) > 0 /\ above[i] THEN max_temp ELSE afterCold[i]]

\* a faulty count: the cold side counts values <= min_temp
warnings_BelowInclusive(temps, min_temp, max_temp) ==
    [num_below |-> Cardinality({i \in 1..Len(temps) : temps[i] <= min_temp}),
     num_above |-> CountTrue(above_max(temps, max_temp))]

\* the two counts of the printed warnings (0: that warning is not printed)
warnings(temps, min_temp, max_temp) ==
    [num_below |-> CountTrue(below_min(temps, min_temp)),
     num_above |-> CountTrue(above_max(temps, max_temp))]

clip_temperatures(temps, min_temp, max_temp) == clipped(temps, min_temp, max_temp)

\* a faulty clip: the masks are written into the caller's array
caller_array_after_clip_InPlace(temps, min_temp, max_temp) ==
    clipped(temps, min_temp, max_temp)

\* clipped_temps = temps.copy(): the caller's array when the call returns
caller_array_after_clip(temps, min_temp, max_temp) == temps

---------------------------------------------------------------------------
(* RTO_climate_change_demand_impact.py: generate_x, predict_demand *)

\* a faulty category: Saturday counts as a weekday
generate_x_SaturdayWeekday(X, date, degree_of_fit) ==
    [j \in 1..Len(X) |->
        [Constant |-> 1,
         Temperature |-> [i \in 1..degree_of_fit |-> Pow(X[j], i)],
         category |-> IF weekday(date[j]) < 6 THEN 1 ELSE 0]]

\* one row of the DataFrame per date: Constant, Temperature^1..^d, category
generate_x(X, date, degree_of_fit) ==
    [j \in 1..Len(X) |->
        [Constant |-> 1,
         Temperature |-> [i \in 1..degree_of_fit |-> Pow(X[j], i)],
         category |-> IF weekday(date[j]) < 5 THEN 1 ELSE 0]]

\* the loop "for i in range(1, degree_of_fit + 1)" from i on, for one row:
\* a key that is not in coefficients adds nothing
RECURSIVE climate_terms(_, _, _, _)
climate_terms(row, coefficients, i, degree_of_fit) ==
    IF i > degree_of_fit THEN 0
    ELSE (IF coef_key(i) \in DOMAIN coefficients
            THEN coefficients[coef_key(i)] * row.Temperature[i]
            ELSE 0)
         + climate_terms(row, coefficients, i + 1, degree_of_fit)

\* predict_demand(X, dates, coefficients, degree_of_fit): a Series, one
\* value per date, or the KeyError of coefficients['constant'] or
\* coefficients['weekday_effect']
climate_predict_demand(X, dates, coefficients, degree_of_fit) ==
    LET data == generate_x(X, dates, degree_of_fit)
    IN  IF "constant" \notin DOMAIN coefficients THEN KeyError("constant")
        ELSE IF "weekday_effect" \notin DOMAIN coefficients
               THEN KeyError("weekday_effect")
        ELSE Ok([j \in 1..Len(X) |->
                    coefficients["constant"]
                    + climate_terms(data[j], coefficients, 1, degree_of_fit)
                    + coefficients["weekday_effect"] * data[j].category])

---------------------------------------------------------------------------
(* calculate_total_cost_pwlf.py: predict_demand *)

\* the keys the scalar predictor reads, in the order it reads them
cost_keys_read(is_weekday, poly_degree) ==
    (IF is_weekday THEN <<"weekday_effect">> ELSE <<>>)
    \o <<"constant">>
    \o [i \in 1..poly_degree |-> coef_key(i)]

\* the first key of keys that coefficients lacks, "" when none is missing
RECURSIVE FirstMissing(_, _)
FirstMissing(keys, coefficients) ==
    IF keys = <<>> THEN ""
    ELSE IF Head(keys) \notin DOMAIN coefficients THEN Head(keys)
    ELSE FirstMissing(Tail(keys), coefficients)

\* a faulty lower bound: the fit's min_temp_C is ignored even when present
cost_min_temp_bound_Ignored(temp, coefficients) == temp

\* temp = max(temp, coefficients.get('data_range', {}).get('min_temp_C', -inf)):
\* data_range is looked up in the coefficient mapping itself
cost_min_temp_bound(temp, coefficients) ==
    IF "data_range" \in DOMAIN coefficients
       /\ "min_temp_C" \in DOMAIN coefficients["data_range"]
    THEN Max(temp, coefficients["data_range"]["min_temp_C"])
    ELSE temp

RECURSIVE cost_terms(_, _, _, _)
cost_terms(temp, coefficients, i, poly_degree) ==
    IF i > poly_degree THEN 0
    ELSE coefficients[coef_key(i)] * Pow(temp, i)
         + cost_terms(temp, coefficients, i + 1, poly_degree)

\* a faulty result: the sum is returned without the max(0, .)
cost_clamp_None(demand) == demand

\* return max(0, float(demand))
cost_clamp(demand) == Max(0, demand)

\* predict_demand(temp, coefficients, is_weekday, poly_degree)
cost_predict_demand(temp0, coefficients, is_weekday, poly_degree) ==
    LET temp == cost_min_temp_bound(temp0, coefficients)
        missing == FirstMissing(cost_keys_read(is_weekday, poly_degree), coefficients)
    IN  IF missing # "" THEN KeyError(missing)
        ELSE Ok(cost_clamp(coefficients["constant"]
                           + cost_terms(temp, coefficients, 1, poly_degree)
                           + (IF is_weekday THEN coefficients["weekday_effect"] ELSE 0)))

\* rto_temp['is_weekday'] = index.dayofweek < 5, then rto_temp.apply(lambda row:
\* predict_demand(row['temperature'], demand_fits[rto]['coefficients'],
\* row['is_weekday'], POLY_DEGREE), axis=1): the first row that raises ends it
cost_daily_demand(temperature, index, fit, poly_degree) ==
    LET one(j) == cost_predict_demand(temperature[j], fit.coefficients,
                                      weekday(index[j]) < 5, poly_degree)
        failed == {j \in 1..Len(temperature) : one(j).kind # "ok"}
    IN  IF failed # {}
          THEN one(CHOOSE j \in failed : \A k \in failed : j <= k)
          ELSE Ok([j \in 1..Len(temperature) |-> one(j).val])

---------------------------------------------------------------------------
(* historical_demand_changes.py: predict_demand (fixed at degree 4) *)

subregion_keys_read ==
    <<"constant", "temperature", "temperature^2", "temperature^3",
      "temperature^4", "weekday_effect">>

subregion_predict_demand(X, dates, coefficients) ==
    LET missing == FirstMissing(subregion_keys_read, coefficients)
        category(j) == IF weekday(dates[j]) < 5 THEN 1 ELSE 0
    IN  IF missing # "" THEN KeyError(missing)
        ELSE Ok([j \in 1..Len(X) |->
                    coefficients["constant"]
                    + coefficients["temperature"] * X[j]
                    + coefficients["temperature^2"] * Pow(X[j], 2)
                    + coefficients["temperature^3"] * Pow(X[j], 3)
                    + coefficients["temperature^4"] * Pow(X[j], 4)
                    + coefficients["weekday_effect"] * category(j)])

---------------------------------------------------------------------------
(* calculate_total_cost_pwlf.py: get_price *)
(*                                                                         *)
(* Python lists are indexed from 0, sequences from 1: breakpoints[i] of    *)
(* the code is breakpoints[i + 1] here, and slopes[-1] is the last entry.  *)

IndexError(i) == [kind |-> "IndexError", val |-> i]

\* slopes[i] * demand + intercepts[i] for the 1-based index i, or the
\* IndexError of a list that has no such entry
segment_price(demand, pwlf_params, i) ==
    IF i < 1 \/ i > Len(pwlf_params.slopes) \/ i > Len(pwlf_params.intercepts)
      THEN IndexError(i)
      ELSE Ok(pwlf_params.slopes[i] * demand + pwlf_params.intercepts[i])

\* the segments whose closed interval holds demand (lines 58-59)
segments_holding(demand, breakpoints) ==
    {i \in 1..(Len(breakpoints) - 1) :
        breakpoints[i] <= demand /\ demand <= breakpoints[i + 1]}

\* a faulty price: the value below the first breakpoint is not clamped
get_price_BelowUnclamped(demand, pwlf_params) ==
    LET breakpoints == pwlf_params.breakpoints
        holding == segments_holding(demand, breakpoints)
    IN  IF demand < breakpoints[1] THEN segment_price(demand, pwlf_params, 1)
        ELSE IF demand > breakpoints[Len(breakpoints)]
          THEN segment_price(demand, pwlf_params, Len(pwlf_params.slopes))
        ELSE IF holding # {}
          THEN segment_price(demand, pwlf_params,
                             CHOOSE i \in holding : \A j \in holding : i <= j)
        ELSE Ok(0)

\* a faulty price: the loop keeps the last segment that holds the demand
get_price_LastSegment(demand, pwlf_params) ==
    LET breakpoints == pwlf_params.breakpoints
        holding == segments_holding(demand, breakpoints)
        first == segment_price(demand, pwlf_params, 1)
    IN  IF demand < breakpoints[1]
          THEN (IF first.kind = "ok" THEN Ok(Max(0, first.val)) ELSE first)
        ELSE IF demand > breakpoints[Len(breakpoints)]
          THEN segment_price(demand, pwlf_params, Len(pwlf_params.slopes))
        ELSE IF holding # {}
          THEN segment_price(demand, pwlf_params,
                             CHOOSE i \in holding : \A j \in holding : i >= j)
        ELSE Ok(0)

\* get_price(demand, pwlf_params): the loop returns at the first segment
\* that holds the demand, and 0 when none does
get_price(demand, pwlf_params) ==
    LET breakpoints == pwlf_params.breakpoints
        holding == segments_holding(demand, breakpoints)
        first == segment_price(demand, pwlf_params, 1)
    IN  IF demand < breakpoints[1]
          THEN (IF first.kind = "ok" THEN Ok(Max(0, first.val)) ELSE first)
        ELSE IF demand > breakpoints[Len(breakpoints)]
          THEN segment_price(demand, pwlf_params, Len(pwlf_params.slopes))
        ELSE IF holding # {}
          THEN segment_price(demand, pwlf_params,
                             CHOOSE i \in holding : \A j \in holding : i <= j)
        ELSE Ok(0)

---------------------------------------------------------------------------
(* Float values: an exact rational, or one of the IEEE specials *)

Abs(x) == IF x < 0 THEN -x ELSE x

RECURSIVE Gcd(_, _)
Gcd(a, b) == IF b = 0 THEN a ELSE Gcd(b, a % b)

\* the rational n/d (d # 0) in lowest terms with a positive denominator
Num(n, d) ==
    LET g == Gcd(Abs(n), Abs(d))
        sgn == IF d < 0 THEN -1 ELSE 1
    IN  [k |-> "num", n |-> sgn * (n \div g), d |-> sgn * (d \div g)]

NaN  == [k |-> "nan",  n |-> 0, d |-> 1]
PInf == [k |-> "pinf", n |-> 0, d |-> 1]
NInf == [k |-> "ninf", n |-> 0, d |-> 1]

IsNum(v) == v.k = "num"

\* a - b of two values that are numbers or NaN
\* (over the least common denominator, which keeps the integers small)
VSub(a, b) ==
    IF IsNum(a) /\ IsNum(b)
      THEN LET g == Gcd(a.d, b.d)
           IN  Num(a.n * (b.d \div g) - b.n * (a.d \div g), (a.d \div g) * b.d)
      ELSE NaN

VAdd(a, b) ==
    IF IsNum(a) /\ IsNum(b) THEN Num(a.n * b.d + b.n * a.d, a.d * b.d) ELSE NaN

\* a / b in float arithmetic: x/0 is +-inf, 0/0 is NaN, no exception
VDiv(a, b) ==
    IF ~(IsNum(a) /\ IsNum(b)) THEN NaN
    ELSE IF b.n # 0 THEN Num(a.n * b.d, a.d * b.n)
    ELSE IF a.n > 0 THEN PInf
    ELSE IF a.n < 0 THEN NInf
    ELSE NaN

\* v * 100
VTimes100(v) == IF IsNum(v) THEN Num(100 * v.n, v.d) ELSE v

\* 10 * n / d (n >= 0, d > 0) rounded to an integer, halves to the even one
RoundTenths(n, d) ==
    LET q == n \div d
        r == n % d
        digit == (10 * r) \div d
        rest == (10 * r) % d
        low == 10 * q + digit
    IN  IF 2 * rest > d THEN low + 1
        ELSE IF 2 * rest < d THEN low
        ELSE IF low % 2 = 0 THEN low ELSE low + 1

\* a faulty rounding: to the nearest integer instead of one decimal
VRound1_ToInteger(v) ==
    IF ~IsNum(v) THEN v
    ELSE LET t == RoundTenths(Abs(v.n), 10 * v.d)
         IN  Num((IF v.n < 0 THEN -1 ELSE 1) * t, 1)

\* DataFrame.round(1): to one decimal, halves to the even digit
VRound1(v) ==
    IF ~IsNum(v) THEN v
    ELSE LET t == RoundTenths(Abs(v.n), v.d)
         IN  Num((IF v.n < 0 THEN -1 ELSE 1) * t, 10)

\* the numbers among vs (a sequence of values)
NonNaN(vs) == SelectSeq(vs, LAMBDA v : IsNum(v))

RECURSIVE VSum(_)
VSum(vs) ==
    IF vs = <<>> THEN Num(0, 1)
    ELSE IF Len(vs) = 1 THEN VAdd(vs[1], Num(0, 1))
    ELSE LET half == Len(vs) \div 2
         IN  VAdd(VSum(SubSeq(vs, 1, half)), VSum(SubSeq(vs, half + 1, Len(vs))))

\* a faulty mean: NaN entries count in the divisor
VMean_CountsNaN(vs) ==
    IF NonNaN(vs) = <<>> THEN NaN
    ELSE VDiv(VSum(NonNaN(vs)), Num(Len(vs), 1))

\* Series.mean() / DataFrame.mean(axis=1): NaN is skipped, an empty mean is NaN
VMean(vs) ==
    IF NonNaN(vs) = <<>> THEN NaN
    ELSE VDiv(VSum(NonNaN(vs)), Num(Len(NonNaN(vs)), 1))

---------------------------------------------------------------------------
(* RTO_climate_change_demand_impact.py: analyze_rto, predict_period_demand *)
(*                                                                         *)
(* A temperature file is a sequence of rows [time, t2m] in ascending time. *)
(* resample('D') and resample('ME') fill the days and months that have no  *)
(* row with NaN, and every mean skips NaN: the model keeps the rows and    *)
(* the month bins that hold a row, and the span of the bins.               *)

historical_period == <<1951, 1980>>
recent_period     == <<2015, 2024>>
DEFAULT_MIN_TEMP  == -30

ValueError(msg) == [kind |-> "ValueError", val |-> msg]

DateLE(a, b) ==
    \/ a[1] < b[1]
    \/ a[1] = b[1] /\ a[2] < b[2]
    \/ a[1] = b[1] /\ a[2] = b[2] /\ a[3] <= b[3]

\* a faulty selection: the end label is taken as the start of end_year
sel_period_EndYearOpen(temp_data, start_year, end_year) ==
    SelectSeq(temp_data, LAMBDA r : /\ DateLE(<<start_year, 1, 1>>, r.time)
                                    /\ DateLE(r.time, <<end_year, 1, 1>>))

\* temp_data.sel(time=slice(f"{start_year}-01-01", f"{end_year}-12-31")):
\* label slicing, both ends included
sel_period(temp_data, start_year, end_year) ==
    SelectSeq(temp_data, LAMBDA r : /\ DateLE(<<start_year, 1, 1>>, r.time)
                                    /\ DateLE(r.time, <<end_year, 12, 31>>))

RECURSIVE SetToSeq(_)
SetToSeq(S) ==
    IF S = {} THEN <<>>
    ELSE LET x == CHOOSE x \in S : \A y \in S : x <= y
         IN  <<x>> \o SetToSeq(S \ {x})

\* months since year 0 of a date's month bin, and the bin's calendar month
MonthBin(date) == 12 * date[1] + date[2] - 1
CalendarMonth(bin) == (bin % 12) + 1

\* pred_series.resample('ME').mean() in one month bin
bin_mean(dates, predictions, bin) ==
    LET rows == SelectSeq([i \in 1..Len(dates) |-> i],
                          LAMBDA i : MonthBin(dates[i]) = bin)
    IN  VMean([j \in 1..Len(rows) |-> Num(predictions[rows[j]], 1)])

\* the calendar months of the bins from the first to the last date:
\* the index of monthly_means.groupby(monthly_means.index.month)
group_months(dates) ==
    LET first == MonthBin(dates[1])
        last  == MonthBin(dates[Len(dates)])
    IN  IF last - first + 1 >= 12 THEN 1..12
        ELSE {CalendarMonth(b) : b \in first..last}

\* monthly_means.groupby(month).mean() for calendar month m
group_mean(dates, predictions, m) ==
    LET bins == SetToSeq({MonthBin(dates[i]) : i \in {j \in 1..Len(dates) : dates[j][2] = m}})
    IN  VMean([j \in 1..Len(bins) |-> bin_mean(dates, predictions, bins[j])])

NoRun == [dates |-> <<>>, clip_in |-> <<>>, clip_min |-> 0, clip_max |-> 0,
          clip_out |-> <<>>, predictions |-> <<>>]

\* predict_period_demand(start_year, end_year) inside analyze_rto; besides the
\* returned Series (val) the record keeps what the call computed on the way
predict_period_demand(temp_data, rto_coefficients, degree_of_fit, min_temp, max_temp, start_year, end_year) ==
    LET period_temp == sel_period(temp_data, start_year, end_year)
        dates == [i \in 1..Len(period_temp) |-> period_temp[i].time]
        values == [i \in 1..Len(period_temp) |-> period_temp[i].t2m]
        clipped_temps == clip_temperatures(values, min_temp, max_temp)
        predictions == climate_predict_demand(clipped_temps, dates,
                                              rto_coefficients, degree_of_fit)
        run == [dates |-> dates, clip_in |-> values, clip_min |-> min_temp,
                clip_max |-> max_temp, clip_out |-> clipped_temps,
                predictions |-> <<>>]
    IN  IF Len(period_temp) = 0
          THEN [kind |-> "ValueError", val |-> <<>>, run |-> NoRun]
        ELSE IF predictions.kind # "ok"
          THEN [kind |-> predictions.kind, val |-> <<>>, run |-> run]
        ELSE [kind |-> "ok",
              val |-> [m \in group_months(dates) |->
                          group_mean(dates, predictions.val, m)],
              run |-> [run EXCEPT !.predictions = predictions.val]]

\* a faulty difference: the two Series are added
series_sub_Added(a, b) ==
    [m \in (DOMAIN a) \cup (DOMAIN b) |->
        IF m \in DOMAIN a /\ m \in DOMAIN b THEN VAdd(a[m], b[m]) ELSE NaN]

\* a faulty difference: baseline minus recent
series_sub_Reversed(a, b) ==
    [m \in (DOMAIN a) \cup (DOMAIN b) |->
        IF m \in DOMAIN a /\ m \in DOMAIN b THEN VSub(b[m], a[m]) ELSE NaN]

\* a - b of two Series: aligned on the union of the indexes, NaN where one
\* side has no entry
series_sub(a, b) ==
    [m \in (DOMAIN a) \cup (DOMAIN b) |->
        IF m \in DOMAIN a /\ m \in DOMAIN b THEN VSub(a[m], b[m]) ELSE NaN]

\* min_temp = polynomial_fit.get('data_range', {}).get('min_temp_C', None),
\* replaced by -30.0 when None
analyze_min_temp(polynomial_fit) ==
    IF "data_range" \in DOMAIN polynomial_fit
       /\ "min_temp_C" \in DOMAIN polynomial_fit["data_range"]
    THEN polynomial_fit["data_range"]["min_temp_C"]
    ELSE DEFAULT_MIN_TEMP

NoSeries == <<>>

\* the body of analyze_rto with its two periods (lines 167-168) as
\* parameters: (changes, demand_historical, demand_recent) or the exception
\* raised
analyze_periods(temp_data, polynomial_fit, degree_of_fit, historical, recent_years) ==
    LET rto_coefficients == polynomial_fit["coefficients"]
        min_temp == analyze_min_temp(polynomial_fit)
        max_temp == MAX_TEMP_CEILING
        hist == predict_period_demand(temp_data, rto_coefficients, degree_of_fit,
                                      min_temp, max_temp,
                                      historical[1], historical[2])
        recent == predict_period_demand(temp_data, rto_coefficients, degree_of_fit,
                                        min_temp, max_temp,
                                        recent_years[1], recent_years[2])
    IN  IF "weekday_effect" \notin DOMAIN rto_coefficients
          THEN [kind |-> "KeyError", changes |-> NoSeries,
                demand_historical |-> NoSeries, demand_recent |-> NoSeries,
                runs |-> <<>>]
        ELSE IF hist.kind # "ok"
          THEN [kind |-> hist.kind, changes |-> NoSeries,
                demand_historical |-> NoSeries, demand_recent |-> NoSeries,
                runs |-> <<hist>>]
        ELSE IF recent.kind # "ok"
          THEN [kind |-> recent.kind, changes |-> NoSeries,
                demand_historical |-> hist.val, demand_recent |-> NoSeries,
                runs |-> <<hist, recent>>]
        ELSE [kind |-> "ok",
              changes |-> series_sub(recent.val, hist.val),
              demand_historical |-> hist.val,
              demand_recent |-> recent.val,
              runs |-> <<hist, recent>>]

\* analyze_rto(rto_name, temp_file_path, polynomial_fit, degree_of_fit)
analyze_rto(temp_data, polynomial_fit, degree_of_fit) ==
    analyze_periods(temp_data, polynomial_fit, degree_of_fit,
                    historical_period, recent_period)

---------------------------------------------------------------------------
(* RTO_climate_change_demand_impact.py: the tables of main *)

ANNUAL == 13    \* the column after the twelve of month_names

\* the values of a Series in index order
series_values(sr) ==
    LET idx == SetToSeq(DOMAIN sr) IN [j \in 1..Len(idx) |-> sr[idx[j]]]

\* Series.mean()
series_mean(sr) == VMean(series_values(sr))

\* pd.DataFrame(d).T: the columns are the union of the Series' indexes, a
\* cell is NaN where the region's Series has no entry
frame_columns(d) == UNION {DOMAIN d[r] : r \in DOMAIN d}
frame_cell(d, r, m) == IF m \in DOMAIN d[r] THEN d[r][m] ELSE NaN

\* df.columns = month_names, then df['Annual'] = df.mean(axis=1)
frame_with_row_mean(d) ==
    [r \in DOMAIN d |->
        [c \in 1..ANNUAL |->
            IF c < ANNUAL THEN frame_cell(d, r, c)
            ELSE VMean([m \in 1..12 |-> frame_cell(d, r, m)])]]

\* a faulty percent change: divided by the recent value
percent_change_OverCurrent(current, baseline) ==
    VRound1(VTimes100(VDiv(VSub(current, baseline), current)))

\* one cell of ((current_df - baseline_df) / baseline_df * 100).round(1)
percent_change(current, baseline) ==
    VRound1(VTimes100(VDiv(VSub(current, baseline), baseline)))

\* lines 270-288: the four tables, or the ValueError of an assignment of the
\* twelve month_names to a frame that has another number of columns
main_tables(results, baseline_results, current_results, annual_changes) ==
    IF \/ Cardinality(frame_columns(results)) # 12
       \/ Cardinality(frame_columns(baseline_results)) # 12
       \/ Cardinality(frame_columns(current_results)) # 12
    THEN [kind |-> "ValueError", absolute |-> <<>>, percent |-> <<>>,
          baseline |-> <<>>, current |-> <<>>]
    ELSE LET baseline_df == frame_with_row_mean(baseline_results)
             current_df == frame_with_row_mean(current_results)
         IN  [kind |-> "ok",
              absolute |-> [r \in DOMAIN results |->
                              [c \in 1..ANNUAL |->
                                  IF c < ANNUAL THEN frame_cell(results, r, c)
                                  ELSE annual_changes[r]]],
              percent |-> [r \in DOMAIN results |->
                              [c \in 1..ANNUAL |->
                                  percent_change(current_df[r][c], baseline_df[r][c])]],
              baseline |-> baseline_df,
              current |-> current_df]

---------------------------------------------------------------------------
(* calculate_total_cost_pwlf.py: the daily rows and the aggregation *)

SUMMER_MONTHS == {6, 7, 8, 9}
MWH_PER_GW_DAY == 24000
BILLION == 1000000000
cost_baseline_years == <<1951, 1980>>
cost_recent_years == <<2015, 2024>>

\* a faulty filter: every month of the file is kept
summer_rows_AllMonths(rows) == rows

\* rto_temp[rto_temp.index.month.isin(SUMMER_MONTHS)]
summer_rows(rows) == SelectSeq(rows, LAMBDA r : r.time[2] \in SUMMER_MONTHS)

\* rto_temp['daily_demand'].apply(lambda demand: get_price(demand, curve)):
\* the first row that raises ends it
cost_daily_price(daily_demand, curve) ==
    LET one(j) == get_price(daily_demand[j], curve)
        failed == {j \in 1..Len(daily_demand) : one(j).kind # "ok"}
    IN  IF failed # {}
          THEN one(CHOOSE j \in failed : \A k \in failed : j <= k)
          ELSE Ok([j \in 1..Len(daily_demand) |-> one(j).val])

\* a faulty cost: the factor of a day's hours is left out
daily_cost_NoHours(demand, price) == demand * price

\* rto_temp['daily_demand'] * 24e3 * rto_temp['daily_price'], one row
daily_cost(demand, price) == demand * MWH_PER_GW_DAY * price

\* lines 95-123 for one region: the summer rows with their demand, price and
\* cost, or the exception that ends the script
cost_region_rows(rows, fit, poly_degree, curve) ==
    LET rto_temp == summer_rows(rows)
        index == [j \in 1..Len(rto_temp) |-> rto_temp[j].time]
        temperature == [j \in 1..Len(rto_temp) |-> rto_temp[j].t2m]
        demand == cost_daily_demand(temperature, index, fit, poly_degree)
        price == IF demand.kind = "ok" THEN cost_daily_price(demand.val, curve)
                 ELSE demand
    IN  IF demand.kind # "ok" THEN demand
        ELSE IF price.kind # "ok" THEN price
        ELSE Ok([j \in 1..Len(rto_temp) |->
                    [time |-> index[j],
                     temperature |-> temperature[j],
                     is_weekday |-> weekday(index[j]) < 5,
                     daily_demand |-> demand.val[j],
                     daily_price |-> price.val[j],
                     daily_cost |-> daily_cost(demand.val[j], price.val[j])]])

\* groupby(index.year)['daily_cost'].sum(): one total per year that has rows
annual_data(daily) ==
    [y \in {daily[j].time[1] : j \in 1..Len(daily)} |->
        SeqSum([j \in 1..Len(daily) |->
                   IF daily[j].time[1] = y THEN daily[j].daily_cost ELSE 0])]

\* a faulty slice: the last year of the range is left out
loc_mean_EndOpen(annual, years) ==
    LET inside == SetToSeq({y \in DOMAIN annual : years[1] <= y /\ y < years[2]})
    IN  VMean([j \in 1..Len(inside) |-> Num(annual[inside[j]], 1)])

\* annual_data.loc[first:last].mean(): label slice, both ends included
loc_mean(annual, years) ==
    LET inside == SetToSeq({y \in DOMAIN annual : years[1] <= y /\ y <= years[2]})
    IN  VMean([j \in 1..Len(inside) |-> Num(annual[inside[j]], 1)])

\* results_df[column] /= 1e9
per_billion(v) ==
    IF ~IsNum(v) THEN v
    ELSE LET g == Gcd(Abs(v.n), BILLION)
         IN  Num(v.n \div g, v.d * (BILLION \div g))

\* lines 136-166 for one region: its row of results_df
cost_results_row(daily) ==
    LET annual == annual_data(daily)
        baseline_avg == loc_mean(annual, cost_baseline_years)
        recent_avg == loc_mean(annual, cost_recent_years)
        pct_change == VTimes100(VDiv(VSub(recent_avg, baseline_avg), baseline_avg))
    IN  [baseline |-> per_billion(baseline_avg),
         recent |-> per_billion(recent_avg),
         change |-> VSub(per_billion(recent_avg), per_billion(baseline_avg)),
         pct_change |-> pct_change]

---------------------------------------------------------------------------
(* RTO_polynomial_fit.py and RTO sub-region calculations/polynomial_fit.py: *)
(* generate_x and fit_zone                                                 *)
(*                                                                         *)
(* A daily series is a sequence of rows [time, value] in ascending time,   *)
(* value a float (a number or NaN).  The numbers the least-squares fit     *)
(* returns are not computed: a coefficient is held as the place of the     *)
(* fitted model it is read from, "intercept_" or <<"coef_", i>>.           *)

MIN_VALID_DAYS == 30
PJM_MIN_DEMAND == 40
ERCOT_MAX_DEMAND == 80
SUBREGION_DEGREE == 4

\* a faulty indicator: Sunday counts as a weekday
fitter_generate_x_SundayWeekday(X, date, max_degree) ==
    [j \in 1..Len(X) |->
        [Temperature |-> [i \in 1..Max(1, max_degree) |-> Pow(X[j], i)],
         category |-> IF weekday(date[j]) # 5 THEN 1 ELSE 0]]

\* one row per sample: Temperature, Temperature^2..^max_degree, category
\* (Temperature[i] is the column of the i-th power)
fitter_generate_x(X, date, max_degree) ==
    [j \in 1..Len(X) |->
        [Temperature |-> [i \in 1..Max(1, max_degree) |-> Pow(X[j], i)],
         category |-> IF weekday(date[j]) < 5 THEN 1 ELSE 0]]

\* the sub-region script: the four powers are written out
subregion_generate_x(X, date) ==
    [j \in 1..Len(X) |->
        [Temperature |-> <<X[j], Pow(X[j], 2), Pow(X[j], 3), Pow(X[j], 4)>>,
         category |-> IF weekday(date[j]) < 5 THEN 1 ELSE 0]]

\* a faulty builder: rows are paired up to the shorter of the two sequences
fitter_generate_x_call_Truncating(X, date, max_degree) ==
    LET n == IF Len(X) < Len(date) THEN Len(X) ELSE Len(date)
    IN  Ok(fitter_generate_x(SubSeq(X, 1, n), SubSeq(date, 1, n), max_degree))

\* a call of generate_x on any two sequences: pd.DataFrame({'Temperature':
\* X}, index=date) raises ValueError when the array X and the index date
\* differ in length
fitter_generate_x_call(X, date, max_degree) ==
    IF Len(X) # Len(date)
      THEN ValueError("Length of values does not match length of index")
      ELSE Ok(fitter_generate_x(X, date, max_degree))

subregion_generate_x_call(X, date) ==
    IF Len(X) # Len(date)
      THEN ValueError("Length of values does not match length of index")
      ELSE Ok(subregion_generate_x(X, date))

\* the climate script builds the frame on the index alone and raises at the
\* first column assignment data[f'Temperature^{i}'] = X**i whose array has
\* another length (on an empty index, at data['category'] = ...)
climate_generate_x_call(X, date, degree_of_fit) ==
    IF Len(X) # Len(date)
      THEN ValueError("Length of values does not match length of index")
      ELSE Ok(generate_x(X, date, degree_of_fit))

series_index(series) == {series[j].time : j \in 1..Len(series)}
series_at(series, t) == (CHOOSE j \in 1..Len(series) : series[j].time = t)

\* daily_demand[common_dates], daily_temp[common_dates] side by side
aligned_samples(daily_demand, daily_temp) ==
    LET common == SelectSeq(daily_demand,
                            LAMBDA r : r.time \in series_index(daily_temp))
    IN  [j \in 1..Len(common) |->
            [time |-> common[j].time,
             demand |-> common[j].value,
             temp |-> daily_temp[series_at(daily_temp, common[j].time)].value]]

\* a faulty mask: only the demand is tested for NaN
valid_mask_DemandOnly(samples) == SelectSeq(samples, LAMBDA r : IsNum(r.demand))

\* ~(np.isnan(daily_demand) | np.isnan(daily_temp))
valid_mask(samples) ==
    SelectSeq(samples, LAMBDA r : IsNum(r.demand) /\ IsNum(r.temp))

\* a faulty mask: zero demand is kept
nonzero_mask_ZeroKept(samples) == SelectSeq(samples, LAMBDA r : r.demand.n >= 0)

\* daily_demand > 0
nonzero_mask(samples) == SelectSeq(samples, LAMBDA r : r.demand.n > 0)

\* os.path.basename(demand_file).split('_')[0], lower case
file_prefix(demand_file) ==
    CASE demand_file = "caiso_load_act_hr_2024.csv" -> "caiso"
      [] demand_file = "ercot_load_act_hr_2024.csv" -> "ercot"
      [] demand_file = "pjm_load_act_hr_2024.csv" -> "pjm"
      [] OTHER -> "zone"

\* daily_demand >= 40 for a PJM file, daily_demand <= 80 for an ERCOT file
region_filter(samples, demand_file) ==
    LET pjm == IF file_prefix(demand_file) = "pjm"
                 THEN SelectSeq(samples,
                        LAMBDA r : r.demand.n >= PJM_MIN_DEMAND * r.demand.d)
                 ELSE samples
    IN  IF file_prefix(demand_file) = "ercot"
          THEN SelectSeq(pjm, LAMBDA r : r.demand.n <= ERCOT_MAX_DEMAND * r.demand.d)
          ELSE pjm

SeqMin(xs) == CHOOSE x \in {xs[j] : j \in 1..Len(xs)} : \A j \in 1..Len(xs) : x <= xs[j]
SeqMax(xs) == CHOOSE x \in {xs[j] : j \in 1..Len(xs)} : \A j \in 1..Len(xs) : x >= xs[j]

\* a faulty range: taken before the discards (NaN is skipped by min and max)
fit_data_range_AllAligned(samples, aligned) ==
    LET present == SelectSeq(aligned, LAMBDA r : IsNum(r.temp))
        temps == [j \in 1..Len(present) |-> present[j].temp.n]
    IN  [start_date |-> aligned[1].time,
         end_date |-> aligned[Len(aligned)].time,
         min_temp_C |-> SeqMin(temps),
         max_temp_C |-> SeqMax(temps),
         avg_demand_GW |-> VMean([j \in 1..Len(samples) |-> samples[j].demand]),
         max_demand_GW |-> SeqMax([j \in 1..Len(samples) |-> samples[j].demand.n])]

\* 'data_range' of coef_dict, from the samples that are fitted
fit_data_range(samples, aligned) ==
    LET temps == [j \in 1..Len(samples) |-> samples[j].temp.n]
    IN  [start_date |-> samples[1].time,
         end_date |-> samples[Len(samples)].time,
         min_temp_C |-> SeqMin(temps),
         max_temp_C |-> SeqMax(temps),
         avg_demand_GW |-> VMean([j \in 1..Len(samples) |-> samples[j].demand]),
         max_demand_GW |-> SeqMax([j \in 1..Len(samples) |-> samples[j].demand.n])]

\* a faulty dictionary: the powers stop one short of max_degree
fit_coefficients_OneShort(max_degree) ==
    [k \in {"constant", "temperature", "weekday_effect"}
           \cup {FStringPower(i) : i \in 2..(max_degree - 1)} |->
        IF k = "constant" THEN <<"intercept_">>
        ELSE IF k = "temperature" THEN <<"coef_", 0>>
        ELSE IF k = "weekday_effect" THEN <<"coef_", max_degree>>
        ELSE <<"coef_", (CHOOSE i \in 2..max_degree : FStringPower(i) = k) - 1>>]

\* a faulty dictionary: the weekday effect is read one column early
fit_coefficients_WeekdayOneEarly(max_degree) ==
    [k \in {"constant", "temperature", "weekday_effect"}
           \cup {FStringPower(i) : i \in 2..max_degree} |->
        IF k = "constant" THEN <<"intercept_">>
        ELSE IF k = "temperature" THEN <<"coef_", 0>>
        ELSE IF k = "weekday_effect" THEN <<"coef_", Max(1, max_degree) - 1>>
        ELSE <<"coef_", (CHOOSE i \in 2..max_degree : FStringPower(i) = k) - 1>>]

\* 'coefficients' of coef_dict: constant, temperature, the loop over
\* range(2, max_degree + 1), then weekday_effect from coef_[-1]
fit_coefficients(max_degree) ==
    [k \in {"constant", "temperature", "weekday_effect"}
           \cup {FStringPower(i) : i \in 2..max_degree} |->
        IF k = "constant" THEN <<"intercept_">>
        ELSE IF k = "temperature" THEN <<"coef_", 0>>
        ELSE IF k = "weekday_effect" THEN <<"coef_", Max(1, max_degree)>>
        ELSE <<"coef_", (CHOOSE i \in 2..max_degree : FStringPower(i) = k) - 1>>]

\* a faulty threshold: exactly 30 samples are refused too
too_few_AtThreshold(samples) == Len(samples) <= MIN_VALID_DAYS

\* len(daily_demand) < 30
too_few(samples) == Len(samples) < MIN_VALID_DAYS

\* the fit and the dictionary that fit_zone returns; "fitted" and "data" are
\* y, X and the design matrix handed to LinearRegression().fit
fit_coef_dict(samples, aligned, data, max_degree) ==
    [coefficients |-> fit_coefficients(max_degree),
     fit_statistics |-> [n_days |-> Len(samples)],
     data_range |-> fit_data_range(samples, aligned),
     fitted |-> samples,
     data |-> data]

\* RTO_polynomial_fit.py fit_zone, from the daily demand and the temperature
\* series on
rto_fit_zone(demand_file, daily_demand, temp_series, max_degree) ==
    LET aligned == aligned_samples(daily_demand, temp_series)
        samples == region_filter(nonzero_mask(valid_mask(aligned)), demand_file)
        X == [j \in 1..Len(samples) |-> samples[j].temp.n]
        index == [j \in 1..Len(samples) |-> samples[j].time]
    IN  IF Len(aligned) = 0 THEN ValueError("No common dates")
        ELSE IF too_few(samples) THEN ValueError("Insufficient data")
        ELSE Ok(fit_coef_dict(samples, aligned,
                              fitter_generate_x(X, index, max_degree), max_degree))

\* the sub-region fit_zone, from the two daily series on
subregion_fit_zone(daily_demand, daily_temp) ==
    LET aligned == aligned_samples(daily_demand, daily_temp)
        samples == nonzero_mask(valid_mask(aligned))
        X == [j \in 1..Len(samples) |-> samples[j].temp.n]
        index == [j \in 1..Len(samples) |-> samples[j].time]
    IN  IF too_few(samples) THEN ValueError("Insufficient data")
        ELSE Ok(fit_coef_dict(samples, aligned,
                              subregion_generate_x(X, index), SUBREGION_DEGREE))

---------------------------------------------------------------------------
(* Inputs of the predictors *)

\* the coefficient keys RTO_polynomial_fit.py writes for a fit of degree d
FitKeyNames ==
    <<"temperature", "temperature^2", "temperature^3",
      "temperature^4", "temperature^5", "temperature^6">>

FitKeys(d) == {"constant", "weekday_effect"} \cup {FitKeyNames[i] : i \in 1..d}

AllCoefValues == {-3, -1, 1, 2, 10}

CoefChoices(key) ==
    IF key = "constant" THEN {-3, 10}
    ELSE IF key = "weekday_effect" THEN {2}
    ELSE IF key \in {"temperature", "temperature^2"} THEN {-1, 1}
    ELSE {1}

CoefficientSets(keys) ==
    {f \in [keys -> AllCoefValues] : \A k \in keys : f[k] \in CoefChoices(k)}

\* keys a damaged fit file may lack
DroppableKeys == {"none", "constant", "weekday_effect", "temperature"}

PredictTemps == {-2, 3}
PredictMinTemps == {0}

\* a Friday and a Sunday: consecutive days from them meet both categories
PredictStartDates == {<<2023, 6, 2>>, <<2023, 6, 4>>}

RECURSIVE date_range(_, _)
date_range(start, periods) ==
    IF periods = 0 THEN <<>>
    ELSE <<start>> \o date_range(NextDay(start), periods - 1)

SeqsUpTo(S, n) == UNION {[1..k -> S] : k \in 1..n}

IdlePredict ==
    /\ p_fit = [coefficients |-> <<>>, data_range |-> <<>>]
    /\ p_degree = 0
    /\ p_X = <<>>
    /\ p_dates = <<>>
    /\ p_op = "idle"
    /\ p_result = <<>>

IdleClip ==
    /\ c_temps = <<>>
    /\ c_min = 0
    /\ c_max = 0
    /\ c_calls = -1
    /\ c_outs = <<>>
    /\ c_log = <<>>

IdleAnalysis ==
    /\ a_temp_data = <<>>
    /\ a_fit = <<>>
    /\ a_degree = 0
    /\ a_pc = "idle"
    /\ a_analysis = <<>>
    /\ a_results = <<>>
    /\ a_baseline_results = <<>>
    /\ a_current_results = <<>>
    /\ a_annual_changes = <<>>
    /\ a_errors = <<>>
    /\ a_tables = <<>>

IdlePrice ==
    /\ q_params = <<>>
    /\ q_demand = 0
    /\ q_price = <<>>

IdleCost ==
    /\ k_temp = <<>>
    /\ k_fit = <<>>
    /\ k_degree = 0
    /\ k_curve = <<>>
    /\ k_pc = "idle"
    /\ k_daily = <<>>
    /\ k_results = <<>>

IdleFitter ==
    /\ f_samples = <<>>
    /\ f_file = ""
    /\ f_degree = 0
    /\ f_pc = "idle"
    /\ f_result = <<>>

IdleFeatures ==
    /\ x_X = <<>>
    /\ x_dates = <<>>
    /\ x_degree = 0
    /\ x_op = "idle"
    /\ x_data = <<>>

IdleBatch ==
    /\ b_script = "none"
    /\ b_inputs = <<>>
    /\ b_order = <<>>
    /\ b_i = 0
    /\ b_pc = "none"
    /\ b_results = <<>>
    /\ b_baseline_results = <<>>
    /\ b_current_results = <<>>
    /\ b_annual_changes = <<>>
    /\ b_errors = <<>>
    /\ b_report = <<>>

IdleLater == IdlePrice /\ IdleCost /\ IdleFitter /\ IdleFeatures /\ IdleBatch

---------------------------------------------------------------------------
(* SpecPredict: one predictor applied to one fit and one temperature series *)

InitPredict ==
    /\ \E fitDegree \in 1..MaxDegree, drop \in DroppableKeys, m \in PredictMinTemps :
         \E c \in CoefficientSets(FitKeys(fitDegree) \ {drop}) :
            p_fit = [coefficients |-> c, data_range |-> [min_temp_C |-> m]]
    /\ p_degree \in 1..MaxDegree
    /\ p_X \in SeqsUpTo(PredictTemps, MaxLen)
    /\ \E start \in PredictStartDates : p_dates = date_range(start, Len(p_X))
    /\ p_op = "none"
    /\ p_result = <<>>
    /\ IdleClip
    /\ IdleAnalysis
    /\ IdleLater

\* calculate_total_cost_pwlf.py, the daily_demand column
CostDailyDemand ==
    /\ p_op = "none"
    /\ p_op' = "cost"
    /\ p_result' = cost_daily_demand(p_X, p_dates, p_fit, p_degree)
    /\ UNCHANGED <<p_fit, p_degree, p_X, p_dates, clipVars, analysisVars, laterVars>>

\* RTO_climate_change_demand_impact.py, predict_demand on the series as given
ClimatePredictDemand ==
    /\ p_op = "none"
    /\ p_op' = "climate"
    /\ p_result' = climate_predict_demand(p_X, p_dates, p_fit.coefficients, p_degree)
    /\ UNCHANGED <<p_fit, p_degree, p_X, p_dates, clipVars, analysisVars, laterVars>>

\* historical_demand_changes.py, predict_demand on the series as given
SubregionPredictDemand ==
    /\ p_op = "none"
    /\ p_op' = "subregion"
    /\ p_result' = subregion_predict_demand(p_X, p_dates, p_fit.coefficients)
    /\ UNCHANGED <<p_fit, p_degree, p_X, p_dates, clipVars, analysisVars, laterVars>>

NextPredict == CostDailyDemand \/ ClimatePredictDemand \/ SubregionPredictDemand

SpecPredict == InitPredict /\ [][NextPredict]_vars

---------------------------------------------------------------------------
(* SpecClip: clip_temperatures applied to an array, then to its own output *)

MaxClipCalls == 2

ClipTemps == {-2, 0, 1, 3}
ClipBounds == {-1, 0, 2}

InitClip ==
    /\ c_temps \in UNION {[1..k -> ClipTemps] : k \in 0..MaxClipLen}
    /\ c_min \in ClipBounds
    /\ c_max \in ClipBounds
    /\ c_calls = 0
    /\ c_outs = <<>>
    /\ c_log = <<>>
    /\ IdlePredict
    /\ IdleAnalysis
    /\ IdleLater

\* clip_temperatures(temps, min_temp, max_temp) on the caller's array
Clip ==
    /\ c_calls = 0
    /\ c_outs' = <<clip_temperatures(c_temps, c_min, c_max)>>
    /\ c_log' = Append(c_log, warnings(c_temps, c_min, c_max))
    /\ c_calls' = 1
    /\ c_temps' = caller_array_after_clip(c_temps, c_min, c_max)
    /\ UNCHANGED <<c_min, c_max, predictVars, analysisVars, laterVars>>

\* clip_temperatures applied to the array the previous call returned
ClipAgain ==
    /\ c_calls >= 1
    /\ c_calls < MaxClipCalls
    /\ c_outs' = Append(c_outs, clip_temperatures(c_outs[c_calls], c_min, c_max))
    /\ c_log' = Append(c_log, warnings(c_outs[c_calls], c_min, c_max))
    /\ c_calls' = c_calls + 1
    /\ UNCHANGED <<c_temps, c_min, c_max, predictVars, analysisVars, laterVars>>

NextClip == Clip \/ ClipAgain

SpecClip == InitClip /\ [][NextClip]_vars

---------------------------------------------------------------------------
(* Spec: main of the climate-impact script for one region *)

\* Bounds of the temperature files
MaxYears == 3        \* years that hold rows
DaysPerMonth == 2    \* most rows in one month

RTO_NAME == "CAISO"

CandidateYears == {1950, 1951, 1980, 1981, 2015, 2025}
Coverages == {"full", "first_quarter", "ends_then_full"}
Patterns == {"seasonal", "step"}

\* the calendar months of year y that hold rows
MonthsCovered(coverage, y) ==
    IF coverage = "full" THEN 1..12
    ELSE IF coverage = "first_quarter" THEN 1..3
    ELSE IF y < 2000 THEN {1, 12} ELSE 1..12

Seasonal == <<-35, -4, 0, 3, 9, 20, 52, 51, 18, 8, 1, -2>>

Temperature(pattern, y, m, d) ==
    IF pattern = "seasonal"
      THEN Seasonal[m] + (IF y >= 2000 THEN 1 ELSE 0) + (IF d = 1 THEN 0 ELSE 2)
      ELSE IF y < 2000 THEN 0 - (m % 3) ELSE 3 + (m % 2)

\* the days of month (y, m) that hold a row
RowDays(y, m) ==
    LET order == <<1, DaysInMonth(y, m), 15, 8>>
    IN  SetToSeq({order[j] : j \in 1..(1 + ((y + m + 1) % DaysPerMonth))})

MonthRows(pattern, y, m) ==
    LET days == RowDays(y, m)
    IN  [j \in 1..Len(days) |->
            [time |-> <<y, m, days[j]>>, t2m |-> Temperature(pattern, y, m, days[j])]]

RECURSIVE YearRows(_, _, _)
YearRows(pattern, y, months) ==
    IF months = <<>> THEN <<>>
    ELSE MonthRows(pattern, y, Head(months)) \o YearRows(pattern, y, Tail(months))

RECURSIVE FileRows(_, _, _)
FileRows(pattern, years, coverage) ==
    IF years = <<>> THEN <<>>
    ELSE YearRows(pattern, Head(years), SetToSeq(MonthsCovered(coverage, Head(years))))
         \o FileRows(pattern, Tail(years), coverage)

TemperatureFiles ==
    {FileRows(pattern, SetToSeq(years), coverage) :
        pattern \in Patterns, coverage \in Coverages,
        years \in {ys \in SUBSET CandidateYears : Cardinality(ys) <= MaxYears}}

Linear(constant, temperature, weekday_effect) ==
    [constant |-> constant, temperature |-> temperature,
     weekday_effect |-> weekday_effect]

WithRange(c) == [coefficients |-> c, data_range |-> [min_temp_C |-> 0]]

\* <<entry of the fit file, degree_of_fit>>
AnalysisCases ==
    { <<WithRange(Linear(10, 1, 2)), 1>>,
      <<WithRange(Linear(0, 1, 0)), 1>>,
      <<WithRange(Linear(-3, -1, 2)), 1>>,
      <<WithRange(Linear(10, -1, 2) @@ ("temperature^2" :> 1)), 2>>,
      <<WithRange(Linear(10, 1, 2)), 2>>,
      <<[coefficients |-> Linear(10, 1, 2)], 1>>,
      <<WithRange([temperature |-> 1, weekday_effect |-> 2]), 1>> }

Init ==
    /\ a_temp_data \in TemperatureFiles
    /\ \E case \in AnalysisCases : a_fit = case[1] /\ a_degree = case[2]
    /\ a_pc = "loop"
    /\ a_analysis = <<>>
    /\ a_results = <<>>
    /\ a_baseline_results = <<>>
    /\ a_current_results = <<>>
    /\ a_annual_changes = <<>>
    /\ a_errors = <<>>
    /\ a_tables = <<>>
    /\ IdlePredict
    /\ IdleClip
    /\ IdleLater

\* lines 240-256: the body of the loop for the region, with its try/except
AnalyzeRegion ==
    /\ a_pc = "loop"
    /\ LET r == analyze_rto(a_temp_data, a_fit, a_degree)
       IN  /\ a_analysis' = r
           /\ IF r.kind = "ok"
                THEN /\ a_results' = (RTO_NAME :> r.changes)
                     /\ a_baseline_results' = (RTO_NAME :> r.demand_historical)
                     /\ a_current_results' = (RTO_NAME :> r.demand_recent)
                     /\ a_annual_changes' = (RTO_NAME :> series_mean(r.changes))
                     /\ a_errors' = a_errors
                ELSE /\ a_errors' = Append(a_errors, <<RTO_NAME, r.kind>>)
                     /\ UNCHANGED <<a_results, a_baseline_results,
                                    a_current_results, a_annual_changes>>
    /\ a_pc' = "after_loop"
    /\ UNCHANGED <<a_temp_data, a_fit, a_degree, a_tables, predictVars, clipVars, laterVars>>

\* lines 258-260: no region succeeded
NoResultsExit ==
    /\ a_pc = "after_loop"
    /\ DOMAIN a_results = {}
    /\ a_pc' = "exit1"
    /\ UNCHANGED <<a_temp_data, a_fit, a_degree, a_analysis, a_results,
                   a_baseline_results, a_current_results, a_annual_changes,
                   a_errors, a_tables, predictVars, clipVars, laterVars>>

\* lines 262-312: the tables are built and written
WriteTables ==
    /\ a_pc = "after_loop"
    /\ DOMAIN a_results # {}
    /\ a_tables' = main_tables(a_results, a_baseline_results,
                               a_current_results, a_annual_changes)
    /\ a_pc' = IF a_tables'.kind = "ok" THEN "done" ELSE "crashed"
    /\ UNCHANGED <<a_temp_data, a_fit, a_degree, a_analysis, a_results,
                   a_baseline_results, a_current_results, a_annual_changes,
                   a_errors, predictVars, clipVars, laterVars>>

Next == AnalyzeRegion \/ NoResultsExit \/ WriteTables

Spec == Init /\ [][Next]_vars

---------------------------------------------------------------------------
(* SpecFrame: clip_temperatures and analyze_rto called, then called again  *)
(* with the arguments of the first call                                    *)

InitFrame == InitClip \/ Init

\* clip_temperatures(temps, min_temp, max_temp) once more on the caller's array
ClipSameArgs ==
    /\ c_calls = 1
    /\ c_outs' = Append(c_outs, clip_temperatures(c_temps, c_min, c_max))
    /\ c_log' = Append(c_log, warnings(c_temps, c_min, c_max))
    /\ c_calls' = c_calls + 1
    /\ c_temps' = caller_array_after_clip(c_temps, c_min, c_max)
    /\ UNCHANGED <<c_min, c_max, predictVars, analysisVars, laterVars>>

\* analyze_rto once more on the region's file and fit
AnalyzeRegionAgain ==
    /\ a_pc = "after_loop"
    /\ a_analysis' = analyze_rto(a_temp_data, a_fit, a_degree)
    /\ a_pc' = "after_repeat"
    /\ UNCHANGED <<a_temp_data, a_fit, a_degree, a_results, a_baseline_results,
                   a_current_results, a_annual_changes, a_errors, a_tables,
                   predictVars, clipVars, laterVars>>

NextFrame == Clip \/ ClipSameArgs \/ AnalyzeRegion \/ AnalyzeRegionAgain

SpecFrame == InitFrame /\ [][NextFrame]_vars

---------------------------------------------------------------------------
(* SpecSamePeriod: the loop body with both period tuples of analyze_rto    *)
(* (lines 167-168) set to the same years, so that predict_period_demand    *)
(* sees the same dates and temperatures for the baseline and the recent    *)
(* period; the rest of main is unchanged.                                  *)

AnalyzeSamePeriod ==
    /\ a_pc = "loop"
    /\ \E period \in {historical_period, recent_period} :
         LET r == analyze_periods(a_temp_data, a_fit, a_degree, period, period)
         IN  /\ a_analysis' = r
             /\ IF r.kind = "ok"
                  THEN /\ a_results' = (RTO_NAME :> r.changes)
                       /\ a_baseline_results' = (RTO_NAME :> r.demand_historical)
                       /\ a_current_results' = (RTO_NAME :> r.demand_recent)
                       /\ a_annual_changes' = (RTO_NAME :> series_mean(r.changes))
                       /\ a_errors' = a_errors
                  ELSE /\ a_errors' = Append(a_errors, <<RTO_NAME, r.kind>>)
                       /\ UNCHANGED <<a_results, a_baseline_results,
                                      a_current_results, a_annual_changes>>
    /\ a_pc' = "after_loop"
    /\ UNCHANGED <<a_temp_data, a_fit, a_degree, a_tables, predictVars, clipVars, laterVars>>

NextSamePeriod == AnalyzeSamePeriod \/ NoResultsExit \/ WriteTables

SpecSamePeriod == Init /\ [][NextSamePeriod]_vars

---------------------------------------------------------------------------
(* SpecTwoDay: main for one region whose temperature file holds two        *)
(* consecutive days of the baseline years and two of the recent years, the *)
(* recent ones warmer by a uniform 5 degC, with a fit that does not         *)
(* respond to temperature.                                                 *)

\* first days of the baseline pair: Fri, Sat, Sun, Mon, and a Saturday that
\* ends its month
TwoDayBaselineStarts ==
    {<<1951, 6, 1>>, <<1951, 6, 2>>, <<1951, 6, 3>>, <<1951, 6, 4>>, <<1951, 6, 30>>}

\* first days of the recent pair: Mon, Fri, Sat, Sun, and a Tuesday that ends
\* its month
TwoDayRecentStarts ==
    {<<2015, 6, 1>>, <<2015, 6, 5>>, <<2015, 6, 6>>, <<2015, 6, 7>>, <<2015, 6, 30>>}

TwoDayTemps == {-2, 20, 46}

\* rows of consecutive days from start with the temperatures temps
DayRows(start, temps) ==
    LET dates == date_range(start, Len(temps))
    IN  [j \in 1..Len(temps) |-> [time |-> dates[j], t2m |-> temps[j]]]

TwoDayFiles ==
    {DayRows(b, <<t1, t2>>) \o DayRows(r, <<t1 + 5, t2 + 5>>) :
        b \in TwoDayBaselineStarts, r \in TwoDayRecentStarts,
        t1 \in TwoDayTemps, t2 \in TwoDayTemps}

\* constant = 10, weekday_effect = 2, every temperature coefficient 0
FlatFit(d) ==
    WithRange([k \in FitKeys(d) |->
                  IF k = "constant" THEN 10 ELSE IF k = "weekday_effect" THEN 2 ELSE 0])

InitTwoDay ==
    /\ a_temp_data \in TwoDayFiles
    /\ a_degree \in {1, MaxDegree}
    /\ a_fit = FlatFit(a_degree)
    /\ a_pc = "loop"
    /\ a_analysis = <<>>
    /\ a_results = <<>>
    /\ a_baseline_results = <<>>
    /\ a_current_results = <<>>
    /\ a_annual_changes = <<>>
    /\ a_errors = <<>>
    /\ a_tables = <<>>
    /\ IdlePredict
    /\ IdleClip
    /\ IdleLater

NextTwoDay == AnalyzeRegion \/ WriteTables

SpecTwoDay == InitTwoDay /\ [][NextTwoDay]_vars

---------------------------------------------------------------------------
(* SpecPrice: get_price applied to one demand and one price curve *)

MaxBreakpoints == 3    \* most breakpoints of a curve

\* strictly ascending breakpoints 1, 3, 5, ...
AscendingBreakpoints(n) == [i \in 1..n |-> 2 * i - 1]

PriceSlopes == {-1, 1, 2}
PriceIntercepts == {-40, 0}

\* a curve of n breakpoints comes with a slope and an intercept per
\* breakpoint, or with one per segment
CurvesOn(breakpoints) ==
    {[breakpoints |-> breakpoints, slopes |-> sl, intercepts |-> ic] :
        sl \in [1..Len(breakpoints) -> PriceSlopes] \cup [1..(Len(breakpoints) - 1) -> PriceSlopes],
        ic \in [1..Len(breakpoints) -> PriceIntercepts] \cup [1..(Len(breakpoints) - 1) -> PriceIntercepts]}

PriceCurves ==
    {c \in CurvesOn(<<10, 50>>) \cup UNION {CurvesOn(AscendingBreakpoints(n)) : n \in 2..MaxBreakpoints} :
        Len(c.slopes) = Len(c.intercepts)}

PriceDemands == (0..(2 * MaxBreakpoints + 1)) \cup {10, 30, 50, 60}

InitPrice ==
    /\ q_params \in PriceCurves
    /\ q_demand \in PriceDemands
    /\ q_price = <<>>
    /\ IdlePredict
    /\ IdleClip
    /\ IdleAnalysis
    /\ IdleCost
    /\ IdleFitter
    /\ IdleFeatures
    /\ IdleBatch

\* get_price(demand, price_demand[short_name])
GetPrice ==
    /\ q_price = <<>>
    /\ q_price' = get_price(q_demand, q_params)
    /\ UNCHANGED <<q_params, q_demand, predictVars, clipVars, analysisVars,
                   costVars, fitterVars, featureVars, batchVars>>

NextPrice == GetPrice

SpecPrice == InitPrice /\ [][NextPrice]_vars

---------------------------------------------------------------------------
(* SpecAnyCurve: get_price on the curves above and on curves that have a   *)
(* single breakpoint                                                       *)

SingleBreakpointCurves ==
    {c \in CurvesOn(<<10>>) \cup CurvesOn(AscendingBreakpoints(1)) :
        Len(c.slopes) = Len(c.intercepts)}

InitAnyCurve ==
    /\ q_params \in PriceCurves \cup SingleBreakpointCurves
    /\ q_demand \in PriceDemands
    /\ q_price = <<>>
    /\ IdlePredict
    /\ IdleClip
    /\ IdleAnalysis
    /\ IdleCost
    /\ IdleFitter
    /\ IdleFeatures
    /\ IdleBatch

SpecAnyCurve == InitAnyCurve /\ [][NextPrice]_vars

---------------------------------------------------------------------------
(* SpecCost: the cost script for one region, one YEAR and one POLY_DEGREE *)

MaxCostYears == 4    \* years that hold rows in a temperature file

CostCandidateYears == {1950, 1951, 1980, 2015, 2024, 2025}

\* the days of a year that hold a row: around both ends of the summer
CostDays == <<<<5, 31>>, <<6, 1>>, <<9, 30>>, <<10, 1>>>>

CostPatterns == {"level", "warming"}

CostTemperature(pattern, y, m) ==
    IF pattern = "level" THEN m - 5
    ELSE (m - 5) + (IF y >= 2000 THEN 2 ELSE 0) + (y % 2)

CostYearRows(pattern, y) ==
    [j \in 1..Len(CostDays) |->
        [time |-> <<y, CostDays[j][1], CostDays[j][2]>>,
         t2m |-> CostTemperature(pattern, y, CostDays[j][1])]]

RECURSIVE CostFileRows(_, _)
CostFileRows(pattern, years) ==
    IF years = <<>> THEN <<>>
    ELSE CostYearRows(pattern, Head(years)) \o CostFileRows(pattern, Tail(years))

CostFiles ==
    {CostFileRows(pattern, SetToSeq(years)) :
        pattern \in CostPatterns,
        years \in {ys \in SUBSET CostCandidateYears :
                      ys # {} /\ Cardinality(ys) <= MaxCostYears}}

\* <<entry of the fit file, POLY_DEGREE>>
CostCases ==
    { <<WithRange(Linear(10, 1, 2)), 1>>,
      <<WithRange(Linear(-3, -1, 2)), 1>>,
      <<WithRange(Linear(2, -1, 2) @@ ("temperature^2" :> 1)), 2>>,
      <<WithRange([constant |-> 10, weekday_effect |-> 2]), 1>> }

CostCurves ==
    { [breakpoints |-> <<10, 50>>, slopes |-> <<1, 2>>, intercepts |-> <<0, -40>>],
      [breakpoints |-> <<1, 3, 5>>, slopes |-> <<2, 1>>, intercepts |-> <<0, 2>>],
      [breakpoints |-> <<1, 3>>, slopes |-> <<-1>>, intercepts |-> <<0>>] }

InitCost ==
    /\ k_temp \in CostFiles
    /\ \E case \in CostCases : k_fit = case[1] /\ k_degree = case[2]
    /\ k_curve \in CostCurves
    /\ k_pc = "region"
    /\ k_daily = <<>>
    /\ k_results = <<>>
    /\ IdlePredict
    /\ IdleClip
    /\ IdleAnalysis
    /\ IdlePrice
    /\ IdleFitter
    /\ IdleFeatures
    /\ IdleBatch

\* lines 87-126: the region's rows, or the exception that ends the script
CostRegion ==
    /\ k_pc = "region"
    /\ LET r == cost_region_rows(k_temp, k_fit, k_degree, k_curve)
       IN  IF r.kind = "ok"
             THEN k_daily' = r.val /\ k_pc' = "aggregate"
             ELSE k_daily' = k_daily /\ k_pc' = "failed"
    /\ UNCHANGED <<k_temp, k_fit, k_degree, k_curve, k_results, predictVars,
                   clipVars, analysisVars, priceVars, fitterVars, featureVars, batchVars>>

\* lines 134-166: the region's row of results_df
CostAggregate ==
    /\ k_pc = "aggregate"
    /\ k_results' = cost_results_row(k_daily)
    /\ k_pc' = "done"
    /\ UNCHANGED <<k_temp, k_fit, k_degree, k_curve, k_daily, predictVars,
                   clipVars, analysisVars, priceVars, fitterVars, featureVars, batchVars>>

NextCost == CostRegion \/ CostAggregate

SpecCost == InitCost /\ [][NextCost]_vars

---------------------------------------------------------------------------
(* SpecFit: one call of fit_zone, of either script *)

MaxDefects == 2    \* days of a file that are not good samples

FitStart == <<2024, 1, 1>>

\* good days in the files: none, and around the least number that is fitted
FitValidCounts == {0, MIN_VALID_DAYS - 1, MIN_VALID_DAYS, MIN_VALID_DAYS + 1}

FitDefects ==
    <<"nan_demand", "nan_temp", "zero_demand", "negative_demand",
      "low_demand", "high_demand", "demand_only", "temp_only">>

\* demand in GW of a day that is not a good sample, or of a day that a
\* region filter removes
DefectDemand(kind) ==
    CASE kind = "nan_demand" -> NaN
      [] kind = "zero_demand" -> Num(0, 1)
      [] kind = "negative_demand" -> Num(-1, 1)
      [] kind = "low_demand" -> Num(PJM_MIN_DEMAND - 5, 1)
      [] kind = "high_demand" -> Num(ERCOT_MAX_DEMAND + 5, 1)
      [] OTHER -> Num(PJM_MIN_DEMAND + 10, 1)

\* its temperature: outside the temperatures of the good days
DefectTemp(kind) ==
    CASE kind = "nan_temp" -> NaN
      [] kind \in {"zero_demand", "low_demand"} -> Num(-40, 1)
      [] OTHER -> Num(60, 1)

GoodDemand(j) == Num(PJM_MIN_DEMAND + 5 + (j % 5), 1)
GoodTemp(j) == Num(((7 * j) % 23) - 5, 1)

\* the days of the files: the first defect, the good days, the other defects
FitDays(defects, n) ==
    LET dates == date_range(FitStart, Len(defects) + n)
    IN  [j \in 1..Len(dates) |->
            IF j = 1 /\ defects # <<>>
              THEN [time |-> dates[j], kind |-> defects[1],
                    demand |-> DefectDemand(defects[1]),
                    temp |-> DefectTemp(defects[1])]
            ELSE IF j > n + 1
              THEN [time |-> dates[j], kind |-> defects[j - n],
                    demand |-> DefectDemand(defects[j - n]),
                    temp |-> DefectTemp(defects[j - n])]
            ELSE [time |-> dates[j], kind |-> "good",
                  demand |-> GoodDemand(j), temp |-> GoodTemp(j)]]

FitSeries(days) ==
    LET in_demand == SelectSeq(days, LAMBDA r : r.kind # "temp_only")
        in_temp == SelectSeq(days, LAMBDA r : r.kind # "demand_only")
    IN  [demand |-> [j \in 1..Len(in_demand) |->
                        [time |-> in_demand[j].time, value |-> in_demand[j].demand]],
         temp |-> [j \in 1..Len(in_temp) |->
                      [time |-> in_temp[j].time, value |-> in_temp[j].temp]]]

FitInputs ==
    {FitSeries(FitDays([j \in 1..Cardinality(ds) |-> FitDefects[SetToSeq(ds)[j]]], n)) :
        n \in FitValidCounts,
        ds \in {ds \in SUBSET DOMAIN FitDefects : Cardinality(ds) <= MaxDefects}}

RtoFiles ==
    {"caiso_load_act_hr_2024.csv", "ercot_load_act_hr_2024.csv",
     "pjm_load_act_hr_2024.csv"}

RtoDegrees == {1, 3}

InitFit ==
    /\ f_samples \in FitInputs
    /\ \/ f_pc = "rto" /\ f_file \in RtoFiles /\ f_degree \in RtoDegrees
       \/ f_pc = "subregion" /\ f_file = "zone" /\ f_degree = SUBREGION_DEGREE
    /\ f_result = <<>>
    /\ IdlePredict
    /\ IdleClip
    /\ IdleAnalysis
    /\ IdlePrice
    /\ IdleCost
    /\ IdleFeatures
    /\ IdleBatch

\* RTO_polynomial_fit.py: fit_zone(demand_file, temp_file, max_degree)
RtoFitZone ==
    /\ f_pc = "rto"
    /\ f_result' = rto_fit_zone(f_file, f_samples.demand, f_samples.temp, f_degree)
    /\ f_pc' = IF f_result'.kind = "ok" THEN "fitted" ELSE "failed"
    /\ UNCHANGED <<f_samples, f_file, f_degree, predictVars, clipVars,
                   analysisVars, priceVars, costVars, featureVars, batchVars>>

\* RTO sub-region calculations/polynomial_fit.py: fit_zone(zone_data, era5_ds)
SubregionFitZone ==
    /\ f_pc = "subregion"
    /\ f_result' = subregion_fit_zone(f_samples.demand, f_samples.temp)
    /\ f_pc' = IF f_result'.kind = "ok" THEN "fitted" ELSE "failed"
    /\ UNCHANGED <<f_samples, f_file, f_degree, predictVars, clipVars,
                   analysisVars, priceVars, costVars, featureVars, batchVars>>

NextFit == RtoFitZone \/ SubregionFitZone

SpecFit == InitFit /\ [][NextFit]_vars

---------------------------------------------------------------------------
(* SpecFeatures: one call of a generate_x *)

MaxFeatureRows == 2    \* rows of a design matrix

FeatureTemps == {-3, 0, 2}

\* first dates: a whole week, the end of a leap February and of a year
FeatureStarts ==
    {<<2024, 1, d>> : d \in 1..7} \cup {<<2024, 2, 28>>, <<2023, 12, 30>>}

InitFeatures ==
    /\ x_X \in SeqsUpTo(FeatureTemps, MaxFeatureRows)
    /\ \E start \in FeatureStarts : x_dates = date_range(start, Len(x_X))
    /\ x_degree \in 1..MaxDegree
    /\ x_op = "idle"
    /\ x_data = <<>>
    /\ IdlePredict
    /\ IdleClip
    /\ IdleAnalysis
    /\ IdlePrice
    /\ IdleCost
    /\ IdleFitter
    /\ IdleBatch

\* RTO_polynomial_fit.py: generate_x(X, date, max_degree), for fitting
FitterGenerateX ==
    /\ x_op = "idle"
    /\ LET r == fitter_generate_x_call(x_X, x_dates, x_degree)
       IN  IF r.kind = "ok" THEN x_data' = r.val /\ x_op' = "fitter"
           ELSE x_data' = x_data /\ x_op' = "fitter_failed"
    /\ UNCHANGED <<x_X, x_dates, x_degree, predictVars, clipVars, analysisVars,
                   priceVars, costVars, fitterVars, batchVars>>

\* RTO_climate_change_demand_impact.py: generate_x(X, date, degree_of_fit),
\* for prediction
ClimateGenerateX ==
    /\ x_op = "idle"
    /\ LET r == climate_generate_x_call(x_X, x_dates, x_degree)
       IN  IF r.kind = "ok" THEN x_data' = r.val /\ x_op' = "climate"
           ELSE x_data' = x_data /\ x_op' = "climate_failed"
    /\ UNCHANGED <<x_X, x_dates, x_degree, predictVars, clipVars, analysisVars,
                   priceVars, costVars, fitterVars, batchVars>>

\* RTO sub-region calculations/polynomial_fit.py: generate_x(X, date)
SubregionGenerateX ==
    /\ x_op = "idle"
    /\ x_degree = SUBREGION_DEGREE
    /\ LET r == subregion_generate_x_call(x_X, x_dates)
       IN  IF r.kind = "ok" THEN x_data' = r.val /\ x_op' = "subregion"
           ELSE x_data' = x_data /\ x_op' = "subregion_failed"
    /\ UNCHANGED <<x_X, x_dates, x_degree, predictVars, clipVars, analysisVars,
                   priceVars, costVars, fitterVars, batchVars>>

NextFeatures == FitterGenerateX \/ ClimateGenerateX \/ SubregionGenerateX

SpecFeatures == InitFeatures /\ [][NextFeatures]_vars

---------------------------------------------------------------------------
(* SpecShapes: a generate_x on sequences of any two lengths *)

InitShapes ==
    /\ x_X \in SeqsUpTo(FeatureTemps, MaxFeatureRows) \cup {<<>>}
    /\ \E start \in FeatureStarts, n \in 0..MaxFeatureRows :
          x_dates = date_range(start, n)
    /\ x_degree \in 1..MaxDegree
    /\ x_op = "idle"
    /\ x_data = <<>>
    /\ IdlePredict
    /\ IdleClip
    /\ IdleAnalysis
    /\ IdlePrice
    /\ IdleCost
    /\ IdleFitter
    /\ IdleBatch

SpecShapes == InitShapes /\ [][NextFeatures]_vars

---------------------------------------------------------------------------
(* historical_demand_changes.py: analyze_zone *)

\* predict_period_demand(start_year, end_year) inside analyze_zone: no
\* clipping, the predictor fixed at degree 4
zone_period_demand(temp_data, coefficients, start_year, end_year) ==
    LET period_temp == sel_period(temp_data, start_year, end_year)
        dates == [i \in 1..Len(period_temp) |-> period_temp[i].time]
        values == [i \in 1..Len(period_temp) |-> period_temp[i].t2m]
        predictions == subregion_predict_demand(values, dates, coefficients)
    IN  IF Len(period_temp) = 0
          THEN ValueError("No temperature data found for period")
        ELSE IF predictions.kind # "ok" THEN predictions
        ELSE Ok([m \in group_months(dates) |->
                    group_mean(dates, predictions.val, m)])

\* analyze_zone(zone_data, era5_ds, polynomial_fits): zone_fit is the one-entry
\* sequence of the matching fit, empty when the loop over the fits finds none
analyze_zone(temp_data, zone_fit) ==
    LET failed(kind) == [kind |-> kind, changes |-> NoSeries,
                         demand_historical |-> NoSeries,
                         demand_recent |-> NoSeries]
        coefficients == zone_fit[1]["coefficients"]
        hist == zone_period_demand(temp_data, coefficients,
                                   historical_period[1], historical_period[2])
        recent == zone_period_demand(temp_data, coefficients,
                                     recent_period[1], recent_period[2])
    IN  IF zone_fit = <<>> THEN failed("ValueError")
        ELSE IF "weekday_effect" \notin DOMAIN coefficients THEN failed("KeyError")
        ELSE IF hist.kind # "ok" THEN failed(hist.kind)
        ELSE IF recent.kind # "ok" THEN failed(recent.kind)
        ELSE [kind |-> "ok",
              changes |-> series_sub(recent.val, hist.val),
              demand_historical |-> hist.val,
              demand_recent |-> recent.val]

---------------------------------------------------------------------------
(* The per-region loops of the four batch scripts and what follows them.   *)
(*                                                                         *)
(* The state of a loop is the record of the script's collections; "raised" *)
(* holds the exception that left the loop uncaught, if any.  A file or an  *)
(* artifact of a region is a sequence of one element, empty when the run   *)
(* does not find it.  A message is <<region, text>>.                       *)

\* RTO_TEMP_MAPPING.keys(), RTO_NAME_MAPPING.keys()
RTO_NAMES == <<"CAISO", "ERCOT", "ISONE", "MISO", "NYISO", "PJM", "SPP">>

\* FILE_MAPPING.keys(), indexed by the region name that fit_zone derives
\* from the file name
FILE_MAPPING ==
    [CAISO |-> "caiso_load_act_hr_2024.csv",
     ERCOT |-> "ercot_load_act_hr_2024.csv",
     ISONE |-> "isone_load_actr_hr_2024.csv",
     MISO  |-> "miso_load_act_hr_2024.csv",
     NYISO |-> "nyiso_load_act_hr_2024.csv",
     PJM   |-> "pjm_load_act_hr_2024.csv",
     SPP   |-> "spp_load_act_hr_2024.csv"]

FIT_MAX_DEGREE == 3          \* main(max_degree=3)
POLY_DEGREES == <<3, 4>>

EmptyLoop ==
    [results |-> <<>>, baseline_results |-> <<>>, current_results |-> <<>>,
     annual_changes |-> <<>>, errors |-> <<>>, raised |-> <<>>]

\* a faulty assignment: the value is written under every key of the dict
dict_set_EveryKey(d, key, value) == [k \in (DOMAIN d) \cup {key} |-> value]

\* d[key] = value
dict_set(d, key, value) ==
    [k \in (DOMAIN d) \cup {key} |-> IF k = key THEN value ELSE d[k]]

\* a faulty handler: the region keeps an (empty) entry in results
errors_append_EntryKept(st, region, text) ==
    [st EXCEPT !.errors = Append(@, <<region, text>>),
               !.results = dict_set(@, region, NoSeries)]

\* errors.append(error_msg), then the next region
errors_append(st, region, text) ==
    [st EXCEPT !.errors = Append(@, <<region, text>>)]

\* an exception outside every try: it ends the script
uncaught(st, region, text) ==
    [st EXCEPT !.raised = <<[region |-> region, text |-> text]>>]

\* lines 242-250 (historical_demand_changes.py 165-173): the four entries
\* of a region whose analysis returned
record_changes(st, region, r) ==
    [st EXCEPT !.results = dict_set(@, region, r.changes),
               !.baseline_results = dict_set(@, region, r.demand_historical),
               !.current_results = dict_set(@, region, r.demand_recent),
               !.annual_changes = dict_set(@, region, series_mean(r.changes))]

\* RTO_climate_change_demand_impact.py lines 217-256: the body of the loop
climate_loop_body(st, rto_name, input, degree_of_fit) ==
    IF input.fit = <<>>
      THEN errors_append(st, rto_name, "No polynomial fit found for RTO")
    ELSE IF input.temp = <<>>
      THEN errors_append(st, rto_name, "Temperature file not found")
    ELSE LET r == analyze_rto(input.temp[1], input.fit[1], degree_of_fit)
         IN  IF r.kind = "ok" THEN record_changes(st, rto_name, r)
             ELSE errors_append(st, rto_name, r.kind)

\* historical_demand_changes.py lines 162-179: the body of the loop
historical_loop_body(st, zone, input) ==
    LET r == analyze_zone(input.temp[1], input.fit)
    IN  IF r.kind = "ok" THEN record_changes(st, zone, r)
        ELSE errors_append(st, zone, r.kind)

\* RTO_polynomial_fit.py lines 275-298: the body of the loop
fit_loop_body(st, rto_name, input, max_degree) ==
    IF input.demand = <<>>
      THEN uncaught(st, rto_name, "Demand file does not exist")
    ELSE IF input.temp = <<>>
      THEN uncaught(st, rto_name, "Temperature file does not exist")
    ELSE LET r == rto_fit_zone(FILE_MAPPING[rto_name], input.demand[1],
                               input.temp[1], max_degree)
         IN  IF r.kind = "ok"
               THEN [st EXCEPT !.results =
                        Append(@, [rto |-> rto_name,
                                   coefficients |-> r.val.coefficients,
                                   fit_statistics |-> r.val.fit_statistics,
                                   data_range |-> r.val.data_range])]
             ELSE errors_append(st, rto_name, r.val)

\* calculate_total_cost_pwlf.py lines 87-126: the body of the first loop;
\* price_demand[short_name] is looked up for each row that has a demand
cost_loop_body(st, short_name, input, poly_degree) ==
    IF input.temp = <<>> THEN uncaught(st, short_name, "FileNotFoundError")
    ELSE LET rto_temp == summer_rows(input.temp[1])
             index == [j \in 1..Len(rto_temp) |-> rto_temp[j].time]
             temperature == [j \in 1..Len(rto_temp) |-> rto_temp[j].t2m]
             demand == cost_daily_demand(temperature, index, input.fit[1],
                                         poly_degree)
             r == IF input.curve # <<>>
                    THEN cost_region_rows(input.temp[1], input.fit[1],
                                          poly_degree, input.curve[1])
                  ELSE IF demand.kind # "ok" THEN demand
                  ELSE IF Len(rto_temp) > 0 THEN KeyError(short_name)
                  ELSE Ok(<<>>)
         IN  IF r.kind = "ok"
               THEN [st EXCEPT !.results = dict_set(@, short_name, r.val)]
             ELSE uncaught(st, short_name, r.kind)

\* the body of the loop of a script
loop_body(script, st, region, input) ==
    CASE script = "fit" -> fit_loop_body(st, region, input, FIT_MAX_DEGREE)
      [] script = "climate" -> climate_loop_body(st, region, input, MaxDegree)
      [] script = "historical" -> historical_loop_body(st, region, input)
      [] script = "cost" -> cost_loop_body(st, region, input, POLY_DEGREES[1])

\* the loop over the regions in the order given; an uncaught exception ends it
RECURSIVE run_loop(_, _, _, _)
run_loop(script, st, order, inputs) ==
    IF order = <<>> \/ st.raised # <<>> THEN st
    ELSE run_loop(script, loop_body(script, st, Head(order), inputs[Head(order)]),
                  Tail(order), inputs)

\* RTO_polynomial_fit.py lines 300-321: the JSON file and the closing prints
fit_finish(st, n_regions) ==
    [pc |-> "written",
     report |-> [fits |-> st.results, errors |-> st.errors,
                 metadata |-> [max_degree |-> FIT_MAX_DEGREE,
                               n_zones_total |-> n_regions,
                               n_zones_successful |-> Len(st.results),
                               n_zones_failed |-> Len(st.errors)],
                 printed_successful |-> Len(st.results),
                 printed_errors |-> st.errors]]

\* lines 258-321 of the climate script (exit_pc "exit1": sys.exit(1)) and
\* lines 181-215 of historical_demand_changes.py (exit_pc "exit0":
\* sys.exit()): the exit without results, the tables and the closing prints
demand_change_finish(st, exit_pc) ==
    LET tables == main_tables(st.results, st.baseline_results,
                              st.current_results, st.annual_changes)
    IN  IF DOMAIN st.results = {}
          THEN [pc |-> exit_pc, report |-> [printed_errors |-> st.errors]]
        ELSE IF tables.kind # "ok"
          THEN [pc |-> "crashed", report |-> [exception |-> tables.kind]]
        ELSE [pc |-> "written",
              report |-> [tables |-> tables,
                          printed_successful |-> Cardinality(DOMAIN st.results),
                          printed_errors |-> st.errors]]

\* calculate_total_cost_pwlf.py lines 128-170: results_df
cost_finish(st) ==
    [pc |-> "written",
     report |-> [results_df |-> [rto \in DOMAIN st.results |->
                                    cost_results_row(st.results[rto])]]]

\* what follows the loop of a script
finish(script, st, n_regions) ==
    CASE script = "fit" -> fit_finish(st, n_regions)
      [] script = "climate" -> demand_change_finish(st, "exit1")
      [] script = "historical" -> demand_change_finish(st, "exit0")
      [] script = "cost" -> cost_finish(st)

---------------------------------------------------------------------------
(* SpecBatch: one run of a batch script over the regions configured for it *)

MaxRegions == 2    \* regions configured for a run

BatchRegions ==
    {RTO_NAMES[j] : j \in 1..(IF MaxRegions < Len(RTO_NAMES) THEN MaxRegions
                              ELSE Len(RTO_NAMES))}

\* the orders in which a loop can visit the regions
BatchOrders ==
    {order \in [1..Cardinality(BatchRegions) -> BatchRegions] :
        \A i, j \in DOMAIN order : order[i] = order[j] => i = j}

\* coefficients of a fit of degree 4 whose higher powers are 0
Quartic(constant, temperature, weekday_effect) ==
    Linear(constant, temperature, weekday_effect)
    @@ ("temperature^2" :> 0) @@ ("temperature^3" :> 0) @@ ("temperature^4" :> 0)

RegionInput(fit, temp, demand, curve) ==
    [fit |-> fit, temp |-> temp, demand |-> demand, curve |-> curve]

\* what the climate script can find for a region: all it needs (two of
\* them), a file of three months a year, no fit, no temperature file, no
\* row from 2015 on, a fit without its constant
ClimateInputs ==
    LET fit == WithRange(Quartic(10, 1, 2))
        file == FileRows("seasonal", <<1951, 2015>>, "full")
    IN  { RegionInput(<<fit>>, <<file>>, <<>>, <<>>),
          RegionInput(<<WithRange(Quartic(3, -1, 0))>>,
                      <<FileRows("step", <<1980, 2024>>, "full")>>, <<>>, <<>>),
          RegionInput(<<fit>>,
                      <<FileRows("seasonal", <<1951, 2015>>, "first_quarter")>>,
                      <<>>, <<>>),
          RegionInput(<<>>, <<file>>, <<>>, <<>>),
          RegionInput(<<fit>>, <<>>, <<>>, <<>>),
          RegionInput(<<fit>>, <<FileRows("seasonal", <<1951>>, "full")>>,
                      <<>>, <<>>),
          RegionInput(<<WithRange([k \in DOMAIN Quartic(10, 1, 2) \ {"constant"} |->
                                      Quartic(10, 1, 2)[k]])>>,
                      <<file>>, <<>>, <<>>) }

\* the sub-region script reads every zone from the one ERA5 file
HistoricalInputs == {input \in ClimateInputs : input.temp # <<>>}

\* what the fit script can find for a region: thirty good days, one fewer,
\* two series without a common date, no demand file, no temperature file
FitBatchInputs ==
    LET full == FitSeries(FitDays(<<>>, MIN_VALID_DAYS))
        short == FitSeries(FitDays(<<>>, MIN_VALID_DAYS - 1))
        apart == FitSeries(FitDays(<<"demand_only", "temp_only">>, 0))
    IN  { RegionInput(<<>>, <<full.temp>>, <<full.demand>>, <<>>),
          RegionInput(<<>>, <<short.temp>>, <<short.demand>>, <<>>),
          RegionInput(<<>>, <<apart.temp>>, <<apart.demand>>, <<>>),
          RegionInput(<<>>, <<full.temp>>, <<>>, <<>>),
          RegionInput(<<>>, <<>>, <<full.demand>>, <<>>) }

\* what the cost script can find for a region of the fit file: all it needs
\* (two of them), a fit without its temperature coefficient, no temperature
\* file, no price curve
CostBatchInputs ==
    LET fit == WithRange(Quartic(10, 1, 2))
        file == CostFileRows("warming", <<1951, 2015>>)
        curve == [breakpoints |-> <<10, 50>>, slopes |-> <<1, 2>>,
                  intercepts |-> <<0, -40>>]
    IN  { RegionInput(<<fit>>, <<file>>, <<>>, <<curve>>),
          RegionInput(<<WithRange(Quartic(8, 1, 0))>>,
                      <<CostFileRows("level", <<1980, 2024>>)>>, <<>>, <<curve>>),
          RegionInput(<<WithRange([k \in DOMAIN Quartic(10, 1, 2) \ {"temperature"} |->
                                      Quartic(10, 1, 2)[k]])>>,
                      <<file>>, <<>>, <<curve>>),
          RegionInput(<<fit>>, <<>>, <<>>, <<curve>>),
          RegionInput(<<fit>>, <<file>>, <<>>, <<>>) }

BatchInputs(script) ==
    CASE script = "fit" -> FitBatchInputs
      [] script = "climate" -> ClimateInputs
      [] script = "historical" -> HistoricalInputs
      [] script = "cost" -> CostBatchInputs

InitBatch ==
    /\ b_script \in {"fit", "climate", "historical", "cost"}
    /\ b_inputs \in [BatchRegions -> BatchInputs(b_script)]
    /\ b_order \in BatchOrders
    /\ b_i = 0
    /\ b_pc = "loop"
    /\ b_results = <<>>
    /\ b_baseline_results = <<>>
    /\ b_current_results = <<>>
    /\ b_annual_changes = <<>>
    /\ b_errors = <<>>
    /\ b_report = <<>>
    /\ IdlePredict
    /\ IdleClip
    /\ IdleAnalysis
    /\ IdlePrice
    /\ IdleCost
    /\ IdleFitter
    /\ IdleFeatures

\* the collections of the running script
BatchLoop ==
    [results |-> b_results, baseline_results |-> b_baseline_results,
     current_results |-> b_current_results,
     annual_changes |-> b_annual_changes, errors |-> b_errors, raised |-> <<>>]

\* one pass through the body of the loop has left the collections as st
LoopStep(st) ==
    /\ b_pc = "loop"
    /\ b_results' = st.results
    /\ b_baseline_results' = st.baseline_results
    /\ b_current_results' = st.current_results
    /\ b_annual_changes' = st.annual_changes
    /\ b_errors' = st.errors
    /\ b_report' = IF st.raised # <<>> THEN [exception |-> st.raised[1]]
                   ELSE b_report
    /\ b_pc' = IF st.raised # <<>> THEN "aborted"
               ELSE IF b_i + 1 = Len(b_order) THEN "after_loop"
               ELSE "loop"
    /\ b_i' = b_i + 1
    /\ UNCHANGED <<b_script, b_inputs, b_order, predictVars, clipVars,
                   analysisVars, priceVars, costVars, fitterVars, featureVars>>

\* the script after its loop has ended as end
Finish(end) ==
    /\ b_pc = "after_loop"
    /\ b_pc' = end.pc
    /\ b_report' = end.report
    /\ UNCHANGED <<b_script, b_inputs, b_order, b_i, b_results,
                   b_baseline_results, b_current_results, b_annual_changes,
                   b_errors, predictVars, clipVars, analysisVars, priceVars,
                   costVars, fitterVars, featureVars>>

\* the region the loop visits next, and what the run finds for it
NextRegion == b_order[b_i + 1]
NextInput == b_inputs[b_order[b_i + 1]]

\* RTO_polynomial_fit.py main: lines 275-298, then lines 300-321
FitBatchRegion ==
    /\ b_script = "fit"
    /\ LoopStep(fit_loop_body(BatchLoop, NextRegion, NextInput, FIT_MAX_DEGREE))

FitBatchFinish ==
    /\ b_script = "fit"
    /\ Finish(fit_finish(BatchLoop, Len(b_order)))

\* RTO_climate_change_demand_impact.py main: lines 217-256, then 258-321
ClimateBatchRegion ==
    /\ b_script = "climate"
    /\ LoopStep(climate_loop_body(BatchLoop, NextRegion, NextInput, MaxDegree))

ClimateBatchFinish ==
    /\ b_script = "climate"
    /\ Finish(demand_change_finish(BatchLoop, "exit1"))

\* historical_demand_changes.py: lines 162-179, then 181-215
HistoricalBatchRegion ==
    /\ b_script = "historical"
    /\ LoopStep(historical_loop_body(BatchLoop, NextRegion, NextInput))

HistoricalBatchFinish ==
    /\ b_script = "historical"
    /\ Finish(demand_change_finish(BatchLoop, "exit0"))

\* calculate_total_cost_pwlf.py, one YEAR and one POLY_DEGREE: lines 87-126,
\* then 128-170
CostBatchRegion ==
    /\ b_script = "cost"
    /\ LoopStep(cost_loop_body(BatchLoop, NextRegion, NextInput, POLY_DEGREES[1]))

CostBatchFinish ==
    /\ b_script = "cost"
    /\ Finish(cost_finish(BatchLoop))

NextBatch ==
    \/ FitBatchRegion \/ FitBatchFinish
    \/ ClimateBatchRegion \/ ClimateBatchFinish
    \/ HistoricalBatchRegion \/ HistoricalBatchFinish
    \/ CostBatchRegion \/ CostBatchFinish

SpecBatch == InitBatch /\ [][NextBatch]_vars

---------------------------------------------------------------------------
(* Properties of the predictors (SpecPredict) *)

\* Monday..Friday
IsWeekdayDate(date) == weekday(date) \in 0..4

\* constant + sum_{k=1..d} coef[temperature^k] * t^k + weekday_effect * is_weekday,
\* recomputed from the keys the fit file holds
RECURSIVE PolynomialPart(_, _, _)
PolynomialPart(c, t, d) ==
    IF d = 0 THEN 0 ELSE c[FitKeyNames[d]] * Pow(t, d) + PolynomialPart(c, t, d - 1)

ManualDemand(c, t, date, d) ==
    c["constant"] + PolynomialPart(c, t, d)
    + (IF IsWeekdayDate(date) THEN c["weekday_effect"] ELSE 0)

UpToClamp(r, s) == r = s \/ (s < 0 /\ r = 0)

HasAllKeys == FitKeys(p_degree) \subseteq DOMAIN p_fit.coefficients

\* C1: with every key of degree d present, the scalar predictor of the cost
\* script and each element of the vectorized predictor of the climate-impact
\* script return constant + sum_k coef_k * t^k + weekday_effect * is_weekday,
\* up to the clamp at zero
C1_PredictMatchesPolynomial ==
    (p_op \in {"cost", "climate"} /\ HasAllKeys) =>
        /\ p_result.kind = "ok"
        /\ Len(p_result.val) = Len(p_X)
        /\ \A j \in 1..Len(p_X) :
              UpToClamp(p_result.val[j],
                        ManualDemand(p_fit.coefficients, p_X[j], p_dates[j], p_degree))

C1_Witness ==
    /\ p_op = "climate"
    /\ HasAllKeys
    /\ p_degree = MaxDegree
    /\ Len(p_X) = 2
    /\ IsWeekdayDate(p_dates[1]) # IsWeekdayDate(p_dates[2])
    /\ p_result.kind = "ok"
    /\ p_result.val[1] > 0

\* C2: every demand value a predictor returns for a complete coefficient set
\* is >= 0
C2_DemandNonNegative ==
    (p_op \in {"cost", "climate", "subregion"} /\ HasAllKeys /\ p_result.kind = "ok") =>
        \A j \in 1..Len(p_result.val) : p_result.val[j] >= 0

\* C3: a call with a coefficient set that lacks a key of degree d (or constant,
\* or weekday_effect) fails; it never returns a prediction
C3_MissingKeyFails ==
    (p_op \in {"cost", "climate"} /\ ~HasAllKeys) => p_result.kind = "KeyError"

\* C7: the cost script's daily demand is the prediction at the temperature
\* clipped into [data_range.min_temp_C, 50]
C7_CostPredictsAtClippedTemperature ==
    (p_op = "cost" /\ HasAllKeys /\ p_result.kind = "ok") =>
        \A j \in 1..Len(p_X) :
            p_result.val[j] =
                cost_predict_demand(
                    clip_temperatures(<<p_X[j]>>, p_fit.data_range.min_temp_C,
                                      MAX_TEMP_CEILING)[1],
                    p_fit.coefficients, IsWeekdayDate(p_dates[j]), p_degree).val

---------------------------------------------------------------------------
(* Properties of clip_temperatures (SpecClip) *)

\* the array handed to application k
ClipInput(k) == IF k = 1 THEN c_temps ELSE c_outs[k - 1]

\* C5: clipping an already clipped array with the same bounds min <= max
\* returns it unchanged
C5_ClipIdempotent ==
    c_min <= c_max =>
        \A k \in 2..Len(c_outs) : c_outs[k] = c_outs[1]

C5_Witness ==
    /\ c_min < c_max
    /\ Len(c_outs) = 2
    /\ \E i, j \in 1..Len(c_temps) : c_temps[i] < c_min /\ c_temps[j] > c_max
    /\ c_outs[2] = c_outs[1]

CountsExact(k) ==
    /\ c_log[k].num_below = Cardinality({i \in 1..Len(ClipInput(k)) : ClipInput(k)[i] < c_min})
    /\ c_log[k].num_above = Cardinality({i \in 1..Len(ClipInput(k)) : ClipInput(k)[i] > c_max})

AlwaysReturns ==
    /\ c_calls >= 0 => (Len(c_outs) = c_calls /\ Len(c_log) = c_calls)
    /\ \A k \in 1..Len(c_outs) : Len(c_outs[k]) = Len(c_temps)

\* C6 as stated: exact counts on each side, a result from every call, and
\* zero counts on both sides when the guard runs on its own output, whatever
\* the bounds
C6_SecondCountsZero ==
    /\ AlwaysReturns
    /\ \A k \in 1..Len(c_log) : CountsExact(k)
    /\ \A k \in 2..Len(c_log) :
          /\ c_log[k].num_below = 0 /\ c_log[k].num_above = 0
          /\ c_log[k].num_below <= c_log[1].num_below
          /\ c_log[k].num_above <= c_log[1].num_above

\* C6 amended: the same, the zero counts of a repeated application being
\* claimed for bounds min <= max
C6_CountsExactAndZeroWhenOrdered ==
    /\ AlwaysReturns
    /\ \A k \in 1..Len(c_log) : CountsExact(k)
    /\ c_min <= c_max =>
          \A k \in 2..Len(c_log) :
              /\ c_log[k].num_below = 0 /\ c_log[k].num_above = 0
              /\ c_log[k].num_below <= c_log[1].num_below
              /\ c_log[k].num_above <= c_log[1].num_above

C6_Witness ==
    /\ c_min <= c_max
    /\ Len(c_log) = 2
    /\ c_log[1].num_below > 0
    /\ c_log[1].num_above > 0
    /\ c_log[2].num_below = 0
    /\ c_log[2].num_above = 0

---------------------------------------------------------------------------
(* Properties of the analysis of one region (Spec) *)

\* the calls of predict_period_demand that got as far as clipping
ClippedRuns ==
    IF a_pc = "loop" THEN {}
    ELSE {k \in 1..Len(a_analysis.runs) : a_analysis.runs[k].run.dates # <<>>}

FitHasMinTemp ==
    "data_range" \in DOMAIN a_fit /\ "min_temp_C" \in DOMAIN a_fit["data_range"]

DatesInYears(y0, y1) ==
    LET rows == SelectSeq(a_temp_data, LAMBDA r : y0 <= r.time[1] /\ r.time[1] <= y1)
    IN  [i \in 1..Len(rows) |-> rows[i].time]

PeriodOfRun(k) == IF k = 1 THEN historical_period ELSE recent_period

\* C8: a period uses exactly the rows whose calendar year lies in [y0, y1];
\* when there is none the call fails with the no-data error and yields no
\* monthly figure
C8_ExactYearRangeOrNoData ==
    a_pc # "loop" =>
        \A k \in 1..Len(a_analysis.runs) :
            LET call == a_analysis.runs[k]
                expected == DatesInYears(PeriodOfRun(k)[1], PeriodOfRun(k)[2])
            IN  IF expected = <<>>
                  THEN /\ call.kind = "ValueError"
                       /\ call.val = <<>>
                       /\ a_analysis.kind = "ValueError"
                       /\ DOMAIN a_results = {}
                  ELSE /\ call.kind # "ValueError"
                       /\ call.run.dates = expected

C8_Witness ==
    /\ a_pc = "after_loop"
    /\ Len(a_analysis.runs) = 2
    /\ a_analysis.runs[1].kind = "ok"
    /\ \E i \in 1..Len(a_temp_data) : a_temp_data[i].time[1] = 1950
    /\ \E i \in 1..Len(a_temp_data) : a_temp_data[i].time[1] = 1981
    /\ \E i \in 1..Len(a_analysis.runs[1].run.dates) :
          a_analysis.runs[1].run.dates[i] = <<1980, 12, 31>>
    /\ a_analysis.runs[2].kind = "ValueError"

\* the mean of the predictions of the rows of month m of year y
MonthOfYearMean(r, y, m) ==
    LET rows == SelectSeq([i \in 1..Len(r.dates) |-> i],
                          LAMBDA i : r.dates[i][1] = y /\ r.dates[i][2] = m)
    IN  VDiv(VSum([j \in 1..Len(rows) |-> Num(r.predictions[rows[j]], 1)]),
             Num(Len(rows), 1))

\* the unweighted mean, over the years that hold rows in month m, of the
\* month's mean daily prediction
UnweightedMonthFigure(r, m) ==
    LET years == SetToSeq({r.dates[i][1] : i \in {j \in 1..Len(r.dates) : r.dates[j][2] = m}})
    IN  VDiv(VSum([j \in 1..Len(years) |-> MonthOfYearMean(r, years[j], m)]),
             Num(Len(years), 1))

SuccessfulRuns ==
    IF a_pc = "loop" THEN {}
    ELSE {k \in 1..Len(a_analysis.runs) : a_analysis.runs[k].kind = "ok"}

\* C9: a period with rows yields exactly 12 monthly figures, one per
\* calendar month, each the unweighted mean over the years present of the
\* month's mean daily prediction, and the annual figure is their simple mean
C9_TwelveFiguresAndAnnualMean ==
    /\ \A k \in SuccessfulRuns :
          LET call == a_analysis.runs[k]
          IN  /\ DOMAIN call.val = 1..12
              /\ \A m \in DOMAIN call.val :
                    call.val[m] = UnweightedMonthFigure(call.run, m)
    /\ a_pc = "done" =>
          LET base == a_tables.baseline[RTO_NAME]
              cur  == a_tables.current[RTO_NAME]
          IN  /\ base[ANNUAL] = VDiv(VSum([m \in 1..12 |-> base[m]]), Num(12, 1))
              /\ cur[ANNUAL] = VDiv(VSum([m \in 1..12 |-> cur[m]]), Num(12, 1))

\* the 12 monthly figures of both periods are numbers
AllMonthsNumeric ==
    \A m \in 1..12 : /\ IsNum(a_tables.baseline[RTO_NAME][m])
                     /\ IsNum(a_tables.current[RTO_NAME][m])

\* C10 as stated: absolute change = recent - baseline and percent change =
\* (recent - baseline) / baseline * 100, per month and annually
C10_PercentExact ==
    a_pc = "done" =>
        \A c \in 1..ANNUAL :
            LET base == a_tables.baseline[RTO_NAME][c]
                cur  == a_tables.current[RTO_NAME][c]
            IN  /\ a_tables.absolute[RTO_NAME][c] = VSub(cur, base)
                /\ (IsNum(base) /\ IsNum(cur) /\ base.n # 0) =>
                     a_tables.percent[RTO_NAME][c] = VTimes100(VDiv(VSub(cur, base), base))

\* p is x rounded to one decimal: a multiple of 1/10 within 1/20 of x, the
\* even multiple when x lies halfway
IsRoundedToOneDecimal(p, x) ==
    /\ IsNum(p)
    /\ 10 % p.d = 0
    /\ LET diff == VSub(p, x)
           tenths == p.n * (10 \div p.d)
       IN  /\ 20 * Abs(diff.n) <= diff.d
           /\ 20 * Abs(diff.n) = diff.d => tenths % 2 = 0

\* C10 amended: per month the absolute change is recent - baseline; the
\* annual absolute change is the mean of the monthly changes that have a
\* figure, which is recent annual - baseline annual when both periods have a
\* figure in all 12 months; per month and annually the percent change is
\* (recent - baseline) / baseline * 100 rounded to one decimal place
\* wherever the baseline is a non-zero number
C10_PercentRoundedToOneDecimal ==
    a_pc = "done" =>
        LET abs == a_tables.absolute[RTO_NAME]
        IN  /\ \A m \in 1..12 :
                  abs[m] = VSub(a_tables.current[RTO_NAME][m], a_tables.baseline[RTO_NAME][m])
            /\ abs[ANNUAL] = VMean([m \in 1..12 |-> abs[m]])
            /\ AllMonthsNumeric =>
                  abs[ANNUAL] = VSub(a_tables.current[RTO_NAME][ANNUAL],
                                     a_tables.baseline[RTO_NAME][ANNUAL])
            /\ \A c \in 1..ANNUAL :
                  LET base == a_tables.baseline[RTO_NAME][c]
                      cur  == a_tables.current[RTO_NAME][c]
                  IN  (IsNum(base) /\ IsNum(cur) /\ base.n # 0) =>
                         IsRoundedToOneDecimal(a_tables.percent[RTO_NAME][c],
                                               VTimes100(VDiv(VSub(cur, base), base)))

C10_Witness ==
    /\ a_pc = "done"
    /\ AllMonthsNumeric
    /\ \E c \in 1..12 :
          LET base == a_tables.baseline[RTO_NAME][c]
              cur  == a_tables.current[RTO_NAME][c]
          IN  /\ base.n # 0
              /\ a_tables.percent[RTO_NAME][c] # VTimes100(VDiv(VSub(cur, base), base))
              /\ a_tables.percent[RTO_NAME][c].n # 0
    /\ a_tables.baseline[RTO_NAME][ANNUAL].n # 0
    /\ a_tables.absolute[RTO_NAME][ANNUAL].n # 0

\* C11: where the baseline figure of a month or of the annual column is
\* zero, the reported percent change is undefined (NaN): it is neither zero
\* nor infinite
C11_ZeroBaselinePercentUndefined ==
    a_pc = "done" =>
        \A c \in 1..ANNUAL :
            LET base == a_tables.baseline[RTO_NAME][c]
            IN  (IsNum(base) /\ base.n = 0) =>
                   a_tables.percent[RTO_NAME][c] = NaN

---------------------------------------------------------------------------
(* Properties of the analysis of one period against itself (SpecSamePeriod) *)

\* the zero of the float values
Zero == Num(0, 1)

\* C12 as stated: with the same series in both periods the absolute change
\* and the percent change are exactly zero in all 12 months and annually
C12_SameSeriesAllZero ==
    a_pc = "done" =>
        \A c \in 1..ANNUAL :
            /\ a_tables.absolute[RTO_NAME][c] = Zero
            /\ a_tables.percent[RTO_NAME][c] = Zero

\* C12 amended: with the same series in both periods the absolute change is
\* exactly zero in every month that has a figure and annually, and the
\* percent change is exactly zero wherever the baseline figure is a number
\* other than zero; a month without a figure has no change, and a zero
\* baseline has an undefined percent change
C12_SameSeriesZeroWhereDefined ==
    a_pc = "done" =>
        /\ a_tables.current = a_tables.baseline
        /\ \A c \in 1..ANNUAL :
              LET base == a_tables.baseline[RTO_NAME][c]
              IN  /\ IsNum(base) => a_tables.absolute[RTO_NAME][c] = Zero
                  /\ (IsNum(base) /\ base.n # 0) => a_tables.percent[RTO_NAME][c] = Zero
                  /\ (IsNum(base) /\ base.n = 0) => a_tables.percent[RTO_NAME][c] = NaN
                  /\ ~IsNum(base) => /\ a_tables.percent[RTO_NAME][c] = NaN
                                     /\ c # ANNUAL => a_tables.absolute[RTO_NAME][c] = NaN

C12_Witness ==
    /\ a_pc = "done"
    /\ AllMonthsNumeric
    /\ \A c \in 1..ANNUAL : /\ a_tables.baseline[RTO_NAME][c].n # 0
                            /\ a_tables.percent[RTO_NAME][c] = Zero
                            /\ a_tables.absolute[RTO_NAME][c] = Zero
    /\ \E c, e \in 1..12 : a_tables.baseline[RTO_NAME][c] # a_tables.baseline[RTO_NAME][e]

---------------------------------------------------------------------------
(* Properties of the two-day comparison (SpecTwoDay) *)

\* the months that have a figure in both periods of a finished analysis
SharedMonths ==
    IF a_pc # "loop" /\ a_analysis.kind = "ok"
      THEN (DOMAIN a_analysis.demand_historical) \cap (DOMAIN a_analysis.demand_recent)
      ELSE {}

\* the percent change between the two periods' figures of month m
PeriodPercent(m) ==
    percent_change(a_analysis.demand_recent[m], a_analysis.demand_historical[m])

\* the dates of call k in month m, and those of them from Monday to Friday
DatesOfMonth(k, m) ==
    {i \in 1..Len(a_analysis.runs[k].run.dates) : a_analysis.runs[k].run.dates[i][2] = m}

WeekdaysOfMonth(k, m) ==
    {i \in DatesOfMonth(k, m) : IsWeekdayDate(a_analysis.runs[k].run.dates[i])}

\* both periods have the same share of Monday-Friday dates in month m
SameWeekdayShare(m) ==
    Cardinality(WeekdaysOfMonth(1, m)) * Cardinality(DatesOfMonth(2, m))
        = Cardinality(WeekdaysOfMonth(2, m)) * Cardinality(DatesOfMonth(1, m))

---------------------------------------------------------------------------
(* Properties of get_price (SpecPrice) *)

\* slopes[i] * demand + intercepts[i] of the curve and the demand at hand
SegmentFormula(i) == q_params.slopes[i] * q_demand + q_params.intercepts[i]

NumBreakpoints == Len(q_params.breakpoints)

\* one slope and one intercept per breakpoint
OnePerBreakpoint ==
    Len(q_params.slopes) = NumBreakpoints /\ Len(q_params.intercepts) = NumBreakpoints

\* C14: below the first breakpoint the price is max(0, first formula), above
\* the last it is the last formula unclamped, in between it is the formula
\* of a segment whose closed interval holds the demand; the curve
\* [10,50], [1,2], [0,-40] prices demand 5 at 5 and demand 30 at 30
C14_PiecewiseLinearPrice ==
    (q_price # <<>> /\ OnePerBreakpoint) =>
        /\ q_price.kind = "ok"
        /\ q_demand < q_params.breakpoints[1] =>
              q_price.val = Max(0, SegmentFormula(1))
        /\ q_demand > q_params.breakpoints[NumBreakpoints] =>
              q_price.val = SegmentFormula(NumBreakpoints)
        /\ (q_demand >= q_params.breakpoints[1]
            /\ q_demand <= q_params.breakpoints[NumBreakpoints]) =>
              \E i \in 1..(NumBreakpoints - 1) :
                  /\ q_params.breakpoints[i] <= q_demand
                  /\ q_demand <= q_params.breakpoints[i + 1]
                  /\ q_price.val = SegmentFormula(i)
        /\ q_params = [breakpoints |-> <<10, 50>>, slopes |-> <<1, 2>>,
                       intercepts |-> <<0, -40>>] =>
              /\ q_demand = 5 => q_price.val = 5
              /\ q_demand = 30 => q_price.val = 30

C14_Witness ==
    /\ q_price # <<>>
    /\ OnePerBreakpoint
    /\ NumBreakpoints = 3
    /\ q_demand > q_params.breakpoints[3]
    /\ q_price.kind = "ok"
    /\ q_price.val < 0

\* the breakpoints the demand is equal to
BreakpointsHit == {j \in 1..NumBreakpoints : q_params.breakpoints[j] = q_demand}

\* C15 as stated: at a breakpoint the price agrees with the formulas of both
\* adjoining segments and, at the first and the last breakpoint, with the
\* extrapolation formulas
C15_BreakpointAgreesBothSides ==
    (q_price # <<>> /\ q_price.kind = "ok") =>
        \A j \in BreakpointsHit :
            /\ j > 1 => q_price.val = SegmentFormula(j - 1)
            /\ j < NumBreakpoints => q_price.val = SegmentFormula(j)
            /\ j = 1 => q_price.val = Max(0, SegmentFormula(1))
            /\ j = NumBreakpoints =>
                  q_price.val = SegmentFormula(Len(q_params.slopes))

\* C15 amended: at a breakpoint the price is the formula of the segment
\* below it (of the first segment at the first breakpoint), unclamped
C15_BreakpointTakesLowerSegment ==
    (q_price # <<>> /\ q_price.kind = "ok") =>
        \A j \in BreakpointsHit :
            q_price.val = SegmentFormula(IF j = 1 THEN 1 ELSE j - 1)

C15_Witness ==
    /\ q_price # <<>>
    /\ q_price.kind = "ok"
    /\ \E j \in BreakpointsHit :
          /\ j > 1 /\ j < NumBreakpoints
          /\ SegmentFormula(j - 1) # SegmentFormula(j)
          /\ q_price.val = SegmentFormula(j - 1)

---------------------------------------------------------------------------
(* C16: the cost pipeline (SpecCost) *)

CostRowsDone == k_pc \in {"aggregate", "done"}

SummerRowsOfFile == {j \in 1..Len(k_temp) : k_temp[j].time[2] \in 6..9}

\* the rows of k_daily are the June-September rows of the file, each with
\* cost = demand * 24000 * price
DailyCostRule ==
    /\ Len(k_daily) = Cardinality(SummerRowsOfFile)
    /\ \A j \in 1..Len(k_daily) :
          /\ k_daily[j].time[2] \in 6..9
          /\ \E i \in SummerRowsOfFile : k_temp[i].time = k_daily[j].time
          /\ k_daily[j].daily_cost
                = k_daily[j].daily_demand * 24000 * k_daily[j].daily_price

RECURSIVE CostOfYear(_, _)
CostOfYear(y, j) ==
    IF j = 0 THEN 0
    ELSE CostOfYear(y, j - 1)
           + (IF k_daily[j].time[1] = y THEN k_daily[j].daily_cost ELSE 0)

YearsWithRows(first, last) ==
    {y \in first..last : \E j \in 1..Len(k_daily) : k_daily[j].time[1] = y}

RECURSIVE TotalOfYears(_)
TotalOfYears(ys) ==
    IF ys = {} THEN 0
    ELSE LET y == CHOOSE z \in ys : TRUE
         IN  CostOfYear(y, Len(k_daily)) + TotalOfYears(ys \ {y})

\* the mean of the annual totals of the years first..last that hold rows
MeanAnnualTotal(first, last) ==
    VDiv(Num(TotalOfYears(YearsWithRows(first, last)), 1),
         Num(Cardinality(YearsWithRows(first, last)), 1))

BaselineMean == MeanAnnualTotal(1951, 1980)
RecentMean == MeanAnnualTotal(2015, 2024)
PercentOfMeans == VTimes100(VDiv(VSub(RecentMean, BaselineMean), BaselineMean))

\* C16 as stated: daily cost = demand * 24000 * price over the June-September
\* days only, and the reported baseline and recent are the means of the annual
\* totals over 1951-1980 and 2015-2024, the reported change their difference
\* and the percent change (recent - baseline) / baseline * 100
C16_CostFiguresAreTheMeans ==
    /\ (CostRowsDone => DailyCostRule)
    /\ (k_pc = "done" =>
          /\ k_results.baseline = BaselineMean
          /\ k_results.recent = RecentMean
          /\ k_results.change = VSub(RecentMean, BaselineMean)
          /\ k_results.pct_change = PercentOfMeans)

\* C16 amended: the same daily costs, annual totals and period means; the
\* reported baseline and recent are those means divided by 1e9, the reported
\* change is the difference of the two reported figures, and the percent
\* change is (recent - baseline) / baseline * 100 of the two means
C16_CostFiguresInBillions ==
    /\ (CostRowsDone => DailyCostRule)
    /\ (k_pc = "done" =>
          /\ k_results.baseline = per_billion(BaselineMean)
          /\ k_results.recent = per_billion(RecentMean)
          /\ k_results.change = VSub(k_results.recent, k_results.baseline)
          /\ k_results.change = per_billion(VSub(RecentMean, BaselineMean))
          /\ k_results.pct_change = PercentOfMeans)

\* a finished run whose file has rows outside the summer and years outside
\* both periods, two baseline years, and a non-zero change
C16_Witness ==
    /\ k_pc = "done"
    /\ Len(k_daily) < Len(k_temp)
    /\ Cardinality(YearsWithRows(1951, 1980)) = 2
    /\ Cardinality(YearsWithRows(2015, 2024)) = 1
    /\ \E j \in 1..Len(k_temp) : k_temp[j].time[1] \in {1950, 2025}
    /\ IsNum(k_results.pct_change)
    /\ k_results.pct_change.n # 0
    /\ k_results.baseline.n # 0

---------------------------------------------------------------------------
(* C17, C18, C19: the curve fitter (SpecFit) *)

FitDates == series_index(f_samples.demand) \cup series_index(f_samples.temp)

DemandOn(t) == f_samples.demand[series_at(f_samples.demand, t)].value
TempOn(t) == f_samples.temp[series_at(f_samples.temp, t)].value

\* a day with a present temperature, a present demand and demand > 0
GoodDates ==
    {t \in series_index(f_samples.demand) \cap series_index(f_samples.temp) :
        IsNum(DemandOn(t)) /\ IsNum(TempOn(t)) /\ DemandOn(t).n > 0}

\* the good days that the filter of the file's region keeps
KeptDates ==
    {t \in GoodDates :
        /\ f_file = "pjm_load_act_hr_2024.csv" => DemandOn(t).n >= 40 * DemandOn(t).d
        /\ f_file = "ercot_load_act_hr_2024.csv" => DemandOn(t).n <= 80 * DemandOn(t).d}

FittedDates == {f_result.val.fitted[j].time : j \in 1..Len(f_result.val.fitted)}

\* C17: every fitted sample has a present temperature, a present demand and
\* demand > 0; a day without them is in neither the fitted data, nor n_days,
\* nor the data range
C17_OnlyGoodSamplesFitted ==
    f_pc = "fitted" =>
        LET fit == f_result.val
            fitted == fit.fitted
        IN  /\ \A j \in 1..Len(fitted) :
                  /\ IsNum(fitted[j].temp)
                  /\ IsNum(fitted[j].demand)
                  /\ fitted[j].demand.n > 0
                  /\ fit.data[j].Temperature[1] * fitted[j].temp.d = fitted[j].temp.n
            /\ Len(fit.data) = Len(fitted)
            /\ FittedDates \subseteq GoodDates
            /\ fit.fit_statistics.n_days = Cardinality(FittedDates)
            /\ fit.data_range.start_date \in FittedDates
            /\ fit.data_range.end_date \in FittedDates
            /\ \E j \in 1..Len(fitted) : fitted[j].temp = Num(fit.data_range.min_temp_C, 1)
            /\ \E j \in 1..Len(fitted) : fitted[j].temp = Num(fit.data_range.max_temp_C, 1)
            /\ \E j \in 1..Len(fitted) :
                  fitted[j].demand = Num(fit.data_range.max_demand_GW, 1)
            /\ fit.data_range.avg_demand_GW
                  = VMean([j \in 1..Len(fitted) |-> fitted[j].demand])

\* a fit whose files begin and end with a day that is not a good sample and
\* is colder or warmer than every good day
C17_Witness ==
    /\ f_pc = "fitted"
    /\ \E t \in FitDates \ GoodDates :
          /\ ~DateLE(f_result.val.data_range.start_date, t)
          /\ t \in series_index(f_samples.temp)
          /\ IsNum(TempOn(t))
          /\ TempOn(t).n > f_result.val.data_range.max_temp_C
    /\ \E t \in FitDates \ GoodDates :
          /\ ~DateLE(t, f_result.val.data_range.end_date)
          /\ t \in series_index(f_samples.temp)
          /\ IsNum(TempOn(t))
          /\ TempOn(t).n < f_result.val.data_range.min_temp_C

InsufficientData == f_pc = "failed" /\ f_result = ValueError("Insufficient data")

FitReturned == f_pc \in {"fitted", "failed"}

\* C18 as stated: the fitter fails with the insufficient-data error exactly
\* when fewer than 30 samples remain after the discards and the region
\* filters, and returns a FitResult otherwise
C18_InsufficientExactlyBelowThirty ==
    FitReturned =>
        /\ InsufficientData <=> Cardinality(KeptDates) < 30
        /\ f_pc = "fitted" <=> Cardinality(KeptDates) >= 30

NoCommonDate ==
    series_index(f_samples.demand) \cap series_index(f_samples.temp) = {}

\* C18 amended: the same, except that RTO_polynomial_fit.py fails with its
\* no-common-dates error, before any discard, when the demand and the
\* temperature share no date
C18_InsufficientBelowThirtyAfterAlignment ==
    FitReturned =>
        IF f_file # "zone" /\ NoCommonDate
          THEN f_pc = "failed" /\ f_result = ValueError("No common dates")
          ELSE /\ InsufficientData <=> Cardinality(KeptDates) < 30
               /\ f_pc = "fitted" <=> Cardinality(KeptDates) >= 30

\* a failure with 29 samples left out of at least 30 shared days
C18_Witness ==
    /\ InsufficientData
    /\ Cardinality(KeptDates) = 29
    /\ Cardinality(series_index(f_samples.demand) \cap series_index(f_samples.temp)) >= 30

PowerKeys(d) ==
    {k \in {"temperature^2", "temperature^3", "temperature^4", "temperature^5"} :
        \E i \in 2..d : k = FStringPower(i)}

\* C19: a FitResult for degree d has the coefficient keys constant,
\* temperature, temperature^2..temperature^d and weekday_effect and no other,
\* and min_temp_C <= t <= max_temp_C for the temperature t of every sample
\* used in the fit
C19_KeysMatchDegreeAndRangeCoversSamples ==
    f_pc = "fitted" =>
        LET fit == f_result.val
        IN  /\ DOMAIN fit.coefficients
                  = {"constant", "temperature", "weekday_effect"} \cup PowerKeys(f_degree)
            /\ Len(fit.data) > 0
            /\ \A j \in 1..Len(fit.data) :
                  /\ Len(fit.data[j].Temperature) = f_degree
                  /\ fit.data_range.min_temp_C <= fit.data[j].Temperature[1]
                  /\ fit.data[j].Temperature[1] <= fit.data_range.max_temp_C
            /\ \A t \in KeptDates :
                  /\ fit.data_range.min_temp_C * TempOn(t).d <= TempOn(t).n
                  /\ TempOn(t).n <= fit.data_range.max_temp_C * TempOn(t).d

\* a fit of degree 3, which has no key temperature^4, on files that hold a
\* day outside the fitted range
C19_Witness ==
    /\ f_pc = "fitted"
    /\ f_degree = 3
    /\ "temperature^3" \in DOMAIN f_result.val.coefficients
    /\ \E t \in series_index(f_samples.temp) \ KeptDates :
          IsNum(TempOn(t)) /\ TempOn(t).n > f_result.val.data_range.max_temp_C

---------------------------------------------------------------------------
(* C20: the design matrices (SpecFeatures) *)

\* Zeller's congruence: 0 Saturday, 1 Sunday, 2 Monday .. 6 Friday
Zeller(date) ==
    LET m == IF date[2] < 3 THEN date[2] + 12 ELSE date[2]
        y == IF date[2] < 3 THEN date[1] - 1 ELSE date[1]
    IN  (date[3] + ((13 * (m + 1)) \div 5) + (y % 100) + ((y % 100) \div 4)
           + ((y \div 100) \div 4) + 5 * (y \div 100)) % 7

MondayToFriday(date) == Zeller(date) \in 2..6

RECURSIVE RepeatedProduct(_, _)
RepeatedProduct(x, i) == IF i = 1 THEN x ELSE x * RepeatedProduct(x, i - 1)

\* C20: in a design matrix the weekday indicator of a row is 1 exactly when
\* the row's date is a Monday to Friday and 0 on a Saturday or Sunday, and
\* the row has one column for each power 1..d of its temperature
C20_WeekdayIndicatorAndPowerColumns ==
    x_op # "idle" =>
        /\ Len(x_data) = Len(x_X)
        /\ \A j \in 1..Len(x_data) :
              /\ x_data[j].category = (IF MondayToFriday(x_dates[j]) THEN 1 ELSE 0)
              /\ DOMAIN x_data[j].Temperature = 1..x_degree
              /\ \A i \in 1..x_degree :
                    x_data[j].Temperature[i] = RepeatedProduct(x_X[j], i)

\* a matrix built for fitting with a Friday row and a Saturday row, of
\* degree 3
C20_Witness ==
    /\ x_op = "fitter"
    /\ x_degree = 3
    /\ Len(x_data) = 2
    /\ x_data[1].category = 1
    /\ x_data[2].category = 0
    /\ x_data[1].Temperature = <<-3, 9, -27>>

---------------------------------------------------------------------------
(* C27: the fallback of get_price (SpecPrice) *)

\* the values of the segment formulas at the demand, as they are or clamped
\* at 0 the way the branch below the first breakpoint returns them
SegmentValues ==
    UNION {{SegmentFormula(i), Max(0, SegmentFormula(i))} :
              i \in 1..Len(q_params.slopes)}

\* C27: for a curve with at least one breakpoint, strictly ascending
\* breakpoints and as many slopes as intercepts, whatever get_price returns
\* is the value of one of the segment formulas, never the fallback 0
C27_FallbackNeverReached ==
    (q_price # <<>> /\ q_price.kind = "ok" /\ Len(q_params.breakpoints) >= 1
        /\ Len(q_params.slopes) >= 1
        /\ Len(q_params.slopes) = Len(q_params.intercepts))
    => q_price.val \in SegmentValues

---------------------------------------------------------------------------
(* C26: sequences of different lengths (SpecShapes) *)

FeaturesFailed == x_op \in {"fitter_failed", "climate_failed", "subregion_failed"}
FeaturesBuilt == x_op \in {"fitter", "climate", "subregion"}

---------------------------------------------------------------------------
(* C29: the annual column of the absolute-change table (Spec) *)

\* the months in which both periods have a figure
MonthsWithBoth ==
    {m \in 1..12 : /\ IsNum(a_tables.baseline[RTO_NAME][m])
                   /\ IsNum(a_tables.current[RTO_NAME][m])}

RECURSIVE SumOfChanges(_)
SumOfChanges(months) ==
    IF months = {} THEN Num(0, 1)
    ELSE LET m == CHOOSE k \in months : TRUE
         IN  VAdd(VSub(a_tables.current[RTO_NAME][m], a_tables.baseline[RTO_NAME][m]),
                  SumOfChanges(months \ {m}))

AnnualDifference ==
    VSub(a_tables.current[RTO_NAME][ANNUAL], a_tables.baseline[RTO_NAME][ANNUAL])

C29_MissingMonthSeen ==
    /\ a_pc = "done"
    /\ MonthsWithBoth # 1..12
    /\ a_tables.absolute[RTO_NAME][ANNUAL] # AnnualDifference

---------------------------------------------------------------------------
(* C30: the stored coefficients against the columns they were fitted on    *)
(* (SpecFit)                                                               *)

\* the places of the fitted model for degree d: the intercept and one
\* coefficient per column of the design matrix
ModelPlaces == {<<"intercept_">>} \cup {<<"coef_", c>> : c \in 0..f_degree}

\* what the fitted model multiplies by the coefficient at a place, in row j:
\* 1 for the intercept, else the column of the design matrix (0-based c)
ModelRegressor(place, j) ==
    LET row == f_result.val.data[j]
    IN  IF place = <<"intercept_">> THEN 1
        ELSE IF place[2] < Len(row.Temperature) THEN row.Temperature[place[2] + 1]
        ELSE row.category

\* the stored coefficients when the fitted model has 1 at the place and 0
\* at every other
StoredWhenOnlyOne(place) ==
    [k \in DOMAIN f_result.val.coefficients |->
        IF f_result.val.coefficients[k] = place THEN 1 ELSE 0]

\* C30: temperature^k (temperature for k = 1) holds the coefficient of the
\* column of temperature^k and weekday_effect that of the weekday column:
\* predict_demand with the stored coefficients, on the fitting samples,
\* gives the fitted model's own values whatever the fitted numbers are
C30_StoredCoefficientsReproduceModel ==
    f_pc = "fitted" =>
        LET fitted == f_result.val.fitted
            X == [j \in 1..Len(fitted) |-> fitted[j].temp.n]
            dates == [j \in 1..Len(fitted) |-> fitted[j].time]
        IN  /\ \A k \in 1..f_degree :
                  f_result.val.coefficients[coef_key(k)] = <<"coef_", k - 1>>
            /\ \A place \in ModelPlaces :
                  LET pred == climate_predict_demand(X, dates,
                                                     StoredWhenOnlyOne(place), f_degree)
                  IN  /\ pred.kind = "ok"
                      /\ \A j \in 1..Len(fitted) :
                            pred.val[j] = ModelRegressor(place, j)

\* a fit of degree 1 on samples of weekdays and of weekends
C30_Witness ==
    /\ f_pc = "fitted"
    /\ f_degree = 1
    /\ f_result.val.coefficients["weekday_effect"] = <<"coef_", 1>>
    /\ \E j \in 1..Len(f_result.val.data) : f_result.val.data[j].category = 0
    /\ \E j \in 1..Len(f_result.val.data) : f_result.val.data[j].category = 1

---------------------------------------------------------------------------
(* C24: inputs left as they were, calls repeatable (SpecFrame) *)

---------------------------------------------------------------------------
(* Properties of the batch runs (SpecBatch) *)

\* the body of the loop applied to the region alone, from empty collections
Alone(region) == loop_body(b_script, EmptyLoop, region, b_inputs[region])

\* the run finds no result for the region: its data or an artifact fails it
FailsAlone(region) ==
    Alone(region).raised # <<>> \/ Alone(region).errors # <<>>

\* the messages of a list that name the region
MessagesOf(errors, region) == SelectSeq(errors, LAMBDA e : e[1] = region)

BatchEnded == b_pc \in {"written", "exit1", "exit0", "crashed", "aborted"}

\* C21: a region whose data or artifact fails it leaves a message that names
\* it in errors, and the loop is not left
C21_FailureAbortsOnlyItsRegion ==
    \A j \in 1..b_i :
        FailsAlone(b_order[j]) =>
            /\ MessagesOf(b_errors, b_order[j]) # <<>>
            /\ b_pc # "aborted"

\* C22: a run without a successful region ends with an error exit and writes
\* nothing; a run with successful and failed regions writes its results and
\* reports every failed region
C22_NoSuccessFailsPartialSuccessCompletes ==
    BatchEnded =>
        /\ (\A r \in BatchRegions : FailsAlone(r)) =>
              b_pc \in {"exit1", "aborted", "crashed"}
        /\ ((\E r \in BatchRegions : FailsAlone(r))
            /\ (\E r \in BatchRegions : ~FailsAlone(r))) =>
              /\ b_pc = "written"
              /\ "printed_errors" \in DOMAIN b_report
              /\ \A r \in BatchRegions :
                    FailsAlone(r) => MessagesOf(b_report.printed_errors, r) # <<>>

\* the successful results of the run that are the region's
SuccessesOf(region) ==
    IF b_script = "fit"
      THEN Len(SelectSeq(b_results, LAMBDA fit : fit.rto = region))
      ELSE IF region \in DOMAIN b_results THEN 1 ELSE 0

\* C23: at the end of a run every region is once among the results or once in
\* the failure list, and the report holds the three counts, total =
\* successful + failed, and the failure list
C23_EveryRegionCountedOnceInReport ==
    BatchEnded =>
        /\ \A r \in BatchRegions :
              SuccessesOf(r) + Len(MessagesOf(b_errors, r)) = 1
        /\ "metadata" \in DOMAIN b_report
        /\ "errors" \in DOMAIN b_report
        /\ b_report.metadata.n_zones_total = Cardinality(BatchRegions)
        /\ b_report.metadata.n_zones_total =
              b_report.metadata.n_zones_successful + b_report.metadata.n_zones_failed
        /\ b_report.errors = b_errors

\* what the collections st of a script hold for a region
region_record(script, st, region) ==
    LET entry(d) == IF region \in DOMAIN d THEN <<d[region]>> ELSE <<>>
    IN  [results |-> IF script = "fit"
                       THEN SelectSeq(st.results, LAMBDA fit : fit.rto = region)
                       ELSE entry(st.results),
         baseline_results |-> entry(st.baseline_results),
         current_results |-> entry(st.current_results),
         annual_changes |-> entry(st.annual_changes),
         errors |-> MessagesOf(st.errors, region)]

\* what a run that ended at pc with the report wrote and printed for a region
written_for(script, pc, report, region) ==
    LET row(table) == IF region \in DOMAIN table THEN <<table[region]>> ELSE <<>>
    IN  IF pc \in {"aborted", "crashed"} THEN <<>>
        ELSE IF pc \in {"exit1", "exit0"}
          THEN <<MessagesOf(report.printed_errors, region)>>
        ELSE IF script = "fit"
          THEN <<SelectSeq(report.fits, LAMBDA fit : fit.rto = region),
                 MessagesOf(report.errors, region)>>
        ELSE IF script = "cost" THEN row(report.results_df)
        ELSE <<row(report.tables.absolute), row(report.tables.percent),
               row(report.tables.baseline), row(report.tables.current),
               MessagesOf(report.printed_errors, region)>>

\* the regions in the order of the mapping in the script
FileOrder == [j \in 1..Cardinality(BatchRegions) |-> RTO_NAMES[j]]

\* how the run over the same inputs ends when the loop follows FileOrder
EndInFileOrder ==
    LET st == run_loop(b_script, EmptyLoop, FileOrder, b_inputs)
    IN  IF st.raised # <<>>
          THEN [pc |-> "aborted", report |-> [exception |-> st.raised[1]]]
          ELSE finish(b_script, st, Len(FileOrder))

\* a run that ended at pc with the report ended as the run in FileOrder ends,
\* with the same figures and the same messages for every region
EndsAsInFileOrder(pc, report) ==
    pc \in {"written", "exit1", "exit0", "crashed", "aborted"} =>
        LET end == EndInFileOrder
        IN  /\ pc = end.pc
            /\ \A r \in BatchRegions :
                  written_for(b_script, pc, report, r)
                    = written_for(b_script, end.pc, end.report, r)

\* C25: in whatever order the loop visits the regions, a pass leaves for the
\* region it visits what its analysis alone gives, leaves the entries of every
\* other region and the inputs of all as they were, and the run ends with the
\* figures and messages for each region that the run in file order ends with
\* (the exception that ends a run uncaught is not among the recorded errors)
C25_RegionAnalysesOrderIndependent ==
    [][/\ b_inputs' = b_inputs
       /\ b_script' = b_script
       /\ \A r \in BatchRegions :
             region_record(b_script, BatchLoop', r)
               = IF b_pc = "loop" /\ r = b_order[b_i + 1]
                   THEN region_record(b_script, Alone(r), r)
                   ELSE region_record(b_script, BatchLoop, r)
       /\ EndsAsInFileOrder(b_pc', b_report')]_vars

\* a climate run that visited the regions against the file order, with a
\* region analysed and a region failed, and wrote its tables
C25_Witness ==
    /\ b_script = "climate"
    /\ b_pc = "written"
    /\ b_order # FileOrder
    /\ DOMAIN b_results # {}
    /\ b_errors # <<>>
    /\ EndsAsInFileOrder(b_pc, b_report)

\* C28: in the loops of the two demand-change scripts the four dictionaries
\* have the same keys, a region visited is among the keys or has a message in
\* errors and never both, a region not yet visited has neither, and the
\* tables written have the rows of the keys
C28_FourDictionariesShareKeys ==
    b_script \in {"climate", "historical"} =>
        /\ DOMAIN b_baseline_results = DOMAIN b_results
        /\ DOMAIN b_current_results = DOMAIN b_results
        /\ DOMAIN b_annual_changes = DOMAIN b_results
        /\ \A j \in 1..Len(b_order) :
              LET in_keys == b_order[j] \in DOMAIN b_results
                  in_errors == MessagesOf(b_errors, b_order[j]) # <<>>
              IN  IF j <= b_i THEN in_keys # in_errors
                  ELSE ~in_keys /\ ~in_errors
        /\ b_pc = "written" =>
              /\ DOMAIN b_report.tables.absolute = DOMAIN b_results
              /\ DOMAIN b_report.tables.percent = DOMAIN b_results
              /\ DOMAIN b_report.tables.baseline = DOMAIN b_results
              /\ DOMAIN b_report.tables.current = DOMAIN b_results

\* a demand-change run that wrote its tables for one region and holds a
\* message for the other
C28_Witness ==
    /\ b_script \in {"climate", "historical"}
    /\ b_pc = "written"
    /\ b_i = Len(b_order)
    /\ Cardinality(DOMAIN b_results) = Len(b_order) - 1
    /\ Len(b_errors) = 1
    /\ DOMAIN b_report.tables.percent = DOMAIN b_annual_changes

=============================================================================
